---- MODULE Spec2Model ----
(***************************************************************************)
(* A model of fcache: a filesystem-backed cache whose entries are files    *)
(* (re)generated by a caller-supplied producer under a refresh interval.   *)
(*                                                                         *)
(* Absolute paths are sequences of components read from "/".  A raw path   *)
(* may hold ".." components (PathBuf::push does not normalise); a          *)
(* canonical path holds names only.  Directories are a set of canonical    *)
(* paths, regular files a function from canonical paths to their content   *)
(* and modification time.  There are no symbolic links in the model.       *)
(***************************************************************************)
EXTENDS Integers, Sequences, FiniteSets, TLC

\* ------------------------------------------------------------------ bounds
MaxPathLen == 4       \* longest caller-supplied relative path, in components
MaxDirs == 3          \* most directories below the cache root
MaxEntries == 1       \* most entries the caller holds at once
MaxTime == 1          \* the clock runs 0..MaxTime
MaxCalls == 2         \* most successful runs of one entry's producer
MaxFiles == 2         \* most regular files below the cache root
MaxNameLen == 2       \* longest path the name checks are run on, in components
MaxThreads == 2       \* most threads calling into one shared root
MaxAliases == 2       \* most entries held at once where entries share a path

\* --------------------------------------------------------------- constants
DEFAULT_REFRESH_INTERVAL == 5
\* Duration::MAX: larger than every elapsed time the clock can show.
DURATION_MAX == 2147483647
\* The last instant a SystemTime can hold.  Duration counts seconds in a
\* u64 and SystemTime in an i64, so it is half of DURATION_MAX: the scale
\* is the model's, the proportion the platform's.
SYSTEM_TIME_MAX == 1073741823

ParentDir == ".."
Blank == " "                      \* a name that trims to the empty string
NonUtf8 == "<ff>"                 \* a name whose bytes are not valid UTF-8

\* The canonical cache root (InnerDirCache.root), an existing directory.
Root == <<"cache">>

Intervals == {0, 1, DEFAULT_REFRESH_INTERVAL, DURATION_MAX}
Callbacks == {"counter", "fail"}

\* ------------------------------------------------------------- filesystem
Front(s) == SubSeq(s, 1, Len(s) - 1)
Last(s) == s[Len(s)]

\* Path::starts_with: component-wise prefix.
starts_with(p, base) ==
    /\ Len(p) >= Len(base)
    /\ SubSeq(p, 1, Len(base)) = base

\* Kernel path resolution of a raw absolute path: every component but the
\* last is walked through an existing directory; ".." steps to the parent
\* ("/.." is "/").
RECURSIVE walk(_, _, _, _)
walk(d, f, cur, rest) ==
    IF rest = <<>>
    THEN IF cur \in d \/ cur \in DOMAIN f
         THEN [ok |-> TRUE, path |-> cur]
         ELSE [ok |-> FALSE, path |-> cur]
    ELSE IF cur \notin d
         THEN [ok |-> FALSE, path |-> cur]
         ELSE walk(d, f,
                   IF Head(rest) = ParentDir
                   THEN (IF cur = <<>> THEN cur ELSE Front(cur))
                   ELSE Append(cur, Head(rest)),
                   Tail(rest))

\* fs::canonicalize: the canonical path of an existing raw path, or an error.
canonicalize(d, f, raw) == walk(d, f, <<>>, raw)

\* Path::exists: false on any resolution error.
exists(d, f, raw) == canonicalize(d, f, raw).ok

\* Whether the raw path names an existing regular file.
is_file(d, f, raw) ==
    /\ canonicalize(d, f, raw).ok
    /\ canonicalize(d, f, raw).path \in DOMAIN f

\* Mutant: a create that is not exclusive: a name already taken by a
\* regular file is no obstacle.
new_target_shared(d, f, raw) ==
    IF raw = <<>> \/ Last(raw) = ParentDir
    THEN [ok |-> FALSE, path |-> <<>>]
    ELSE LET par == canonicalize(d, f, Front(raw))
             tgt == Append(par.path, Last(raw))
         IN IF par.ok /\ par.path \in d /\ tgt \notin d
            THEN [ok |-> TRUE, path |-> tgt]
            ELSE [ok |-> FALSE, path |-> <<>>]

\* Where a new directory entry named by raw would be made: the parent must
\* resolve to a directory, the last component must be a name not yet there.
new_target(d, f, raw) ==
    IF raw = <<>> \/ Last(raw) = ParentDir
    THEN [ok |-> FALSE, path |-> <<>>]
    ELSE LET par == canonicalize(d, f, Front(raw))
             tgt == Append(par.path, Last(raw))
         IN IF par.ok /\ par.path \in d /\ tgt \notin d /\ tgt \notin DOMAIN f
            THEN [ok |-> TRUE, path |-> tgt]
            ELSE [ok |-> FALSE, path |-> <<>>]

\* fs::create_dir (mkdir, not recursive).
create_dir(d, f, raw) ==
    LET t == new_target(d, f, raw)
    IN IF t.ok THEN [ok |-> TRUE, dirs |-> d \cup {t.path}]
       ELSE [ok |-> FALSE, dirs |-> d]

\* Path::is_dir: the raw path resolves to a directory.
is_dir(d, f, raw) ==
    /\ canonicalize(d, f, raw).ok
    /\ canonicalize(d, f, raw).path \in d

\* The second mkdir of fs::create_dir_all, on the dirs its parents were
\* made in (p): an error is forgiven when the path is a directory.
RECURSIVE create_dir_all(_, _, _)
create_after_parents(p, f, raw) ==
    IF ~p.ok THEN p
    ELSE IF create_dir(p.dirs, f, raw).ok THEN create_dir(p.dirs, f, raw)
    ELSE [ok |-> is_dir(p.dirs, f, raw), dirs |-> p.dirs]

\* fs::create_dir_all: mkdir; on NotFound the parents are made first and
\* the mkdir repeated; any other error is forgiven when the path is a
\* directory.
create_dir_all(d, f, raw) ==
    IF raw = <<>> THEN [ok |-> TRUE, dirs |-> d]
    ELSE IF create_dir(d, f, raw).ok THEN create_dir(d, f, raw)
    ELSE IF exists(d, f, raw) \/ exists(d, f, Front(raw))
    THEN [ok |-> is_dir(d, f, raw), dirs |-> d]
    ELSE create_after_parents(create_dir_all(d, f, Front(raw)), f, raw)

\* The entries of a directory (fs::read_dir).
read_dir(d, f, dir) ==
    {p \in d \cup DOMAIN f : Len(p) = Len(dir) + 1 /\ starts_with(p, dir)}

\* Writing through an open handle: content and modification time change.
write_file(f, p, content, t) ==
    [f EXCEPT ![p] = [content |-> content, mtime |-> t]]

\* ------------------------------------------------------------------ entry
\* CacheLazyFile.  path is the raw absolute path, cb the producer with its
\* own counter ctr, init whether the value is wrapped as a CacheFile.  The
\* borrowed cache_root and cache_refresh_interval are Root and the owning
\* root's interval, which cannot change while an entry borrows it.  opens is
\* history, not a field of the struct: the number of successful open()
\* calls, counted by OpenCounted only.
Entry(path, cb, interval) ==
    [path |-> path, cb |-> cb, ctr |-> 0, refresh_interval |-> interval,
     locked |-> FALSE, init |-> FALSE, opens |-> 0]

\* What an operation hands back: the filesystem after it, the entry after
\* it, its Result (Ok or the Error variant), how many times the producer was
\* invoked, and the payload of an Ok (content readable through the returned
\* File, or the returned entry's path).
Outcome(d, f, ent, res, calls, out) ==
    [dirs |-> d, files |-> f, ent |-> ent, res |-> res, calls |-> calls,
     out |-> out]

\* Mutant: a constructor that does not look at the disk.
CacheLazyFile_new_unchecked(d, f, path, cb, interval) ==
    Outcome(d, f, Entry(path, cb, interval), "Ok", 0, path)

\* CacheLazyFile::new: refuses a path that exists.
CacheLazyFile_new(d, f, path, cb, interval) ==
    IF ~exists(d, f, path)
    THEN Outcome(d, f, Entry(path, cb, interval), "Ok", 0, path)
    ELSE Outcome(d, f, Entry(path, cb, interval), "FileAlreadyExists", 0, <<>>)

\* The producer, run on a writable handle to the file at canonical path p.
\* "counter" writes its counter and then increments it
\* (tests/refresh.rs); "fail" returns an error before writing
\* (tests/files.rs, test_file_callback_error).  Content is tagged with the
\* entry whose producer wrote it.
callback(d, f, t, id, ent, p) ==
    IF ent.cb = "counter"
    THEN Outcome(d, write_file(f, p, <<id, ent.ctr>>, t),
                 [ent EXCEPT !.ctr = @ + 1], "Ok", 1, <<>>)
    ELSE Outcome(d, f, ent, "Callback", 1, <<>>)

\* Opening a file read-only and reading it.
open_read(d, f, ent, calls) ==
    IF is_file(d, f, ent.path)
    THEN Outcome(d, f, ent, "Ok", calls, f[canonicalize(d, f, ent.path).path].content)
    ELSE IF exists(d, f, ent.path)
         THEN Outcome(d, f, ent, "Ok", calls, <<>>)
         ELSE Outcome(d, f, ent, "IO", calls, <<>>)

\* Mutant: a create that takes the file back when the producer fails.
create_rollback(d, f, t, id, ent) ==
    LET tgt == new_target(d, f, ent.path)
    IN IF ~tgt.ok
       THEN Outcome(d, f, ent, "IO", 0, <<>>)
       ELSE LET f1 == f @@ (tgt.path :> [content |-> <<>>, mtime |-> t])
                cbk == callback(d, f1, t, id, ent, tgt.path)
            IN IF cbk.res # "Ok" THEN Outcome(d, f, ent, cbk.res, cbk.calls, <<>>)
               ELSE open_read(d, cbk.files, cbk.ent, cbk.calls)

\* CacheLazyFile::create: exclusive create, producer, reopen read-only.
create(d, f, t, id, ent) ==
    LET tgt == new_target(d, f, ent.path)
    IN IF ~tgt.ok
       THEN Outcome(d, f, ent, "IO", 0, <<>>)
       ELSE LET f1 == f @@ (tgt.path :> [content |-> <<>>, mtime |-> t])
                cbk == callback(d, f1, t, id, ent, tgt.path)
            IN IF cbk.res # "Ok" THEN cbk
               ELSE open_read(d, cbk.files, cbk.ent, cbk.calls)

\* Mutant: a missing file reported as not valid, without an error.
is_valid_defaulting(d, f, t, ent) ==
    IF ~exists(d, f, ent.path) THEN [res |-> "Ok", val |-> FALSE]
    ELSE LET modified == f[canonicalize(d, f, ent.path).path].mtime
         IN IF modified > t THEN [res |-> "SystemTime", val |-> FALSE]
            ELSE [res |-> "Ok", val |-> (t - modified) < ent.refresh_interval]

\* Mutant: a modification time in the future taken for a fresh file.
is_valid_skewed(d, f, t, ent) ==
    IF ~exists(d, f, ent.path) THEN [res |-> "IO", val |-> FALSE]
    ELSE LET modified == f[canonicalize(d, f, ent.path).path].mtime
         IN IF modified > t THEN [res |-> "Ok", val |-> TRUE]
            ELSE [res |-> "Ok", val |-> (t - modified) < ent.refresh_interval]

\* Mutant: the comparison made with <= instead of <.
is_valid_le(d, f, t, ent) ==
    IF ~exists(d, f, ent.path) THEN [res |-> "IO", val |-> FALSE]
    ELSE LET modified == f[canonicalize(d, f, ent.path).path].mtime
         IN IF modified > t THEN [res |-> "SystemTime", val |-> FALSE]
            ELSE [res |-> "Ok", val |-> (t - modified) <= ent.refresh_interval]

\* CacheLazyFile::is_valid, a Result<bool>: res is Ok or the error, val the
\* boolean of an Ok.  The entry's path names a regular file whenever it
\* exists (directory and file names are disjoint in the paths entries are
\* kept for), so the modification time read is the file's.
is_valid(d, f, t, ent) ==
    IF ~exists(d, f, ent.path) THEN [res |-> "IO", val |-> FALSE]
    ELSE LET modified == f[canonicalize(d, f, ent.path).path].mtime
         IN IF modified > t THEN [res |-> "SystemTime", val |-> FALSE]
            ELSE [res |-> "Ok", val |-> (t - modified) < ent.refresh_interval]

\* Mutant: the negation forgotten.
is_invalid_same(d, f, t, ent) == is_valid(d, f, t, ent)

\* CacheLazyFile::is_invalid.
is_invalid(d, f, t, ent) ==
    LET v == is_valid(d, f, t, ent)
    IN [res |-> v.res, val |-> ~v.val]

\* CacheLazyFile::valid_until, a Result<SystemTime>: val is the instant of an
\* Ok.  SystemTime + Duration panics when the sum cannot be represented;
\* the panic is the outcome "Panic".
valid_until(d, f, ent) ==
    IF ~exists(d, f, ent.path) THEN [res |-> "IO", val |-> 0]
    ELSE LET modified == f[canonicalize(d, f, ent.path).path].mtime
         IN IF ent.refresh_interval > SYSTEM_TIME_MAX - modified
            THEN [res |-> "Panic", val |-> 0]
            ELSE [res |-> "Ok", val |-> modified + ent.refresh_interval]

\* Mutant: a forced refresh that is skipped while the file is valid.
force_refresh_if_invalid(d, f, t, id, ent) ==
    IF ~is_file(d, f, ent.path)
    THEN Outcome(d, f, ent, "IO", 0, <<>>)
    ELSE IF is_valid(d, f, t, ent).val
    THEN Outcome(d, f, ent, "Ok", 0, <<>>)
    ELSE LET p == canonicalize(d, f, ent.path).path
         IN callback(d, write_file(f, p, <<>>, t), t, id, ent, p)

\* Mutant: a forced refresh that leaves a locked entry's file alone.
force_refresh_unless_locked(d, f, t, id, ent) ==
    IF ~is_file(d, f, ent.path)
    THEN Outcome(d, f, ent, "IO", 0, <<>>)
    ELSE IF ent.locked
    THEN Outcome(d, f, ent, "Ok", 0, <<>>)
    ELSE LET p == canonicalize(d, f, ent.path).path
         IN callback(d, write_file(f, p, <<>>, t), t, id, ent, p)

\* Mutant: a forced refresh that creates the file when it is missing.
force_refresh_creating(d, f, t, id, ent) ==
    IF ~is_file(d, f, ent.path)
    THEN IF ~new_target(d, f, ent.path).ok
         THEN Outcome(d, f, ent, "IO", 0, <<>>)
         ELSE callback(d, f @@ (new_target(d, f, ent.path).path :>
                                   [content |-> <<>>, mtime |-> t]),
                       t, id, ent, new_target(d, f, ent.path).path)
    ELSE LET p == canonicalize(d, f, ent.path).path
         IN callback(d, write_file(f, p, <<>>, t), t, id, ent, p)

\* CacheLazyFile::force_refresh: truncate for writing, then the producer.
force_refresh(d, f, t, id, ent) ==
    IF ~is_file(d, f, ent.path)
    THEN Outcome(d, f, ent, "IO", 0, <<>>)
    ELSE LET p == canonicalize(d, f, ent.path).path
         IN callback(d, write_file(f, p, <<>>, t), t, id, ent, p)

\* Mutant: the branches taken the wrong way round.
refresh_inverted(d, f, t, id, ent) ==
    LET inv == is_invalid(d, f, t, ent)
    IN IF inv.res # "Ok" THEN Outcome(d, f, ent, inv.res, 0, <<>>)
       ELSE IF ~inv.val THEN force_refresh(d, f, t, id, ent)
       ELSE Outcome(d, f, ent, "Ok", 0, <<>>)

\* Mutant: a refresh that renews the modification time of a valid file.
refresh_touching(d, f, t, id, ent) ==
    LET inv == is_invalid(d, f, t, ent)
    IN IF inv.res # "Ok" THEN Outcome(d, f, ent, inv.res, 0, <<>>)
       ELSE IF inv.val THEN force_refresh(d, f, t, id, ent)
       ELSE Outcome(d, [f EXCEPT ![canonicalize(d, f, ent.path).path].mtime = t],
                    ent, "Ok", 0, <<>>)

\* CacheLazyFile::refresh.
refresh(d, f, t, id, ent) ==
    LET inv == is_invalid(d, f, t, ent)
    IN IF inv.res # "Ok" THEN Outcome(d, f, ent, inv.res, 0, <<>>)
       ELSE IF inv.val THEN force_refresh(d, f, t, id, ent)
       ELSE Outcome(d, f, ent, "Ok", 0, <<>>)

\* Mutant: an open that regenerates an existing file whatever its age.
open_regenerating(d, f, t, id, ent) ==
    IF exists(d, f, ent.path)
    THEN LET r == force_refresh(d, f, t, id, ent)
         IN IF r.res # "Ok" THEN r
            ELSE open_read(d, r.files, r.ent, r.calls)
    ELSE create(d, f, t, id, ent)

\* Mutant: an open that runs the producer again on a file left empty.
open_retrying(d, f, t, id, ent) ==
    IF is_file(d, f, ent.path)
          /\ f[canonicalize(d, f, ent.path).path].content = <<>>
    THEN LET r == force_refresh(d, f, t, id, ent)
         IN IF r.res # "Ok" THEN r
            ELSE open_read(d, r.files, r.ent, r.calls)
    ELSE IF exists(d, f, ent.path)
    THEN LET r == refresh(d, f, t, id, ent)
         IN IF r.res # "Ok" THEN r
            ELSE open_read(d, r.files, r.ent, r.calls)
    ELSE create(d, f, t, id, ent)

\* Mutant: an open that regenerates a file another entry's producer wrote.
open_own(d, f, t, id, ent) ==
    IF is_file(d, f, ent.path)
          /\ f[canonicalize(d, f, ent.path).path].content # <<>>
          /\ f[canonicalize(d, f, ent.path).path].content[1] # id
    THEN LET r == force_refresh(d, f, t, id, ent)
         IN IF r.res # "Ok" THEN r
            ELSE open_read(d, r.files, r.ent, r.calls)
    ELSE IF exists(d, f, ent.path)
    THEN LET r == refresh(d, f, t, id, ent)
         IN IF r.res # "Ok" THEN r
            ELSE open_read(d, r.files, r.ent, r.calls)
    ELSE create(d, f, t, id, ent)

\* Mutant: an open that reads an existing file without refreshing it.
open_stale(d, f, t, id, ent) ==
    IF exists(d, f, ent.path)
    THEN open_read(d, f, ent, 0)
    ELSE create(d, f, t, id, ent)

\* CacheLazyFile::open.
open(d, f, t, id, ent) ==
    IF exists(d, f, ent.path)
    THEN LET r == refresh(d, f, t, id, ent)
         IN IF r.res # "Ok" THEN r
            ELSE open_read(d, r.files, r.ent, r.calls)
    ELSE create(d, f, t, id, ent)

\* Mutant: an init that hands out the entry unlocked.
init_unlocking(d, f, t, id, ent) ==
    IF ~exists(d, f, ent.path)
    THEN LET c == create(d, f, t, id, ent)
         IN IF c.res # "Ok" THEN c
            ELSE Outcome(d, c.files,
                         [c.ent EXCEPT !.init = TRUE, !.locked = FALSE], "Ok",
                         c.calls, c.ent.path)
    ELSE Outcome(d, f, [ent EXCEPT !.init = TRUE, !.locked = FALSE], "Ok", 0,
                 ent.path)

\* Mutant: an init that takes the file back when the producer fails.
init_cleaning(d, f, t, id, ent) ==
    IF ~exists(d, f, ent.path)
    THEN LET c == create(d, f, t, id, ent)
         IN IF c.res # "Ok" THEN Outcome(d, f, ent, c.res, c.calls, <<>>)
            ELSE Outcome(d, c.files, [c.ent EXCEPT !.init = TRUE], "Ok",
                         c.calls, c.ent.path)
    ELSE Outcome(d, f, [ent EXCEPT !.init = TRUE], "Ok", 0, ent.path)

\* Mutant: an init that wraps the entry without creating its file.
init_wrapping(d, f, t, id, ent) ==
    Outcome(d, f, [ent EXCEPT !.init = TRUE], "Ok", 0, ent.path)

\* CacheLazyFile::init: consumes the entry; wraps it as a CacheFile.
init(d, f, t, id, ent) ==
    IF ~exists(d, f, ent.path)
    THEN LET c == create(d, f, t, id, ent)
         IN IF c.res # "Ok" THEN c
            ELSE Outcome(d, c.files, [c.ent EXCEPT !.init = TRUE], "Ok",
                         c.calls, c.ent.path)
    ELSE Outcome(d, f, [ent EXCEPT !.init = TRUE], "Ok", 0, ent.path)

\* Mutant: pruning that does not stop at the cache root.
RECURSIVE prune_through_root(_, _, _)
prune_through_root(d, f, parent) ==
    IF parent = <<>> THEN [ok |-> TRUE, dirs |-> d]
    ELSE LET c == canonicalize(d, f, parent)
         IN IF ~c.ok \/ c.path \notin d
            THEN [ok |-> FALSE, dirs |-> d]
            ELSE IF read_dir(d, f, c.path) # {}
            THEN [ok |-> TRUE, dirs |-> d]
            ELSE IF Last(parent) = ParentDir
            THEN [ok |-> FALSE, dirs |-> d]
            ELSE prune_through_root(d \ {c.path}, f, Front(parent))

\* Mutant: only the file's own directory is pruned.
prune_once(d, f, parent) ==
    IF parent = Root THEN [ok |-> TRUE, dirs |-> d]
    ELSE LET c == canonicalize(d, f, parent)
         IN IF ~c.ok \/ c.path \notin d
            THEN [ok |-> FALSE, dirs |-> d]
            ELSE IF read_dir(d, f, c.path) # {}
            THEN [ok |-> TRUE, dirs |-> d]
            ELSE IF parent = <<>> \/ Last(parent) = ParentDir
            THEN [ok |-> FALSE, dirs |-> d]
            ELSE [ok |-> TRUE, dirs |-> d \ {c.path}]

\* The loop of CacheLazyFile::remove: from the raw parent upward, remove
\* each directory that is empty, until the cache root or a non-empty one.
RECURSIVE prune(_, _, _)
prune(d, f, parent) ==
    IF parent = Root THEN [ok |-> TRUE, dirs |-> d]
    ELSE LET c == canonicalize(d, f, parent)
         IN IF ~c.ok \/ c.path \notin d
            THEN [ok |-> FALSE, dirs |-> d]                \* read_dir fails
            ELSE IF read_dir(d, f, c.path) # {}
            THEN [ok |-> TRUE, dirs |-> d]
            ELSE IF parent = <<>> \/ Last(parent) = ParentDir
            THEN [ok |-> FALSE, dirs |-> d]                \* remove_dir fails
            ELSE prune(d \ {c.path}, f, Front(parent))

\* Mutant: a remove that prunes the empty parents of a file that was never
\* there.
remove_pruning(d, f, ent) ==
    IF ~exists(d, f, ent.path)
    THEN Outcome(IF prune(d, f, Front(ent.path)).ok
                 THEN prune(d, f, Front(ent.path)).dirs ELSE d,
                 f, ent, "Ok", 0, <<>>)
    ELSE IF ~is_file(d, f, ent.path) THEN Outcome(d, f, ent, "IO", 0, <<>>)
    ELSE LET p == canonicalize(d, f, ent.path).path
             f1 == [q \in DOMAIN f \ {p} |-> f[q]]
             pr == prune(d, f1, Front(ent.path))
         IN Outcome(pr.dirs, f1, ent, IF pr.ok THEN "Ok" ELSE "IO", 0, <<>>)

\* Mutant: a remove that reports a missing file.
remove_strict(d, f, ent) ==
    IF ~is_file(d, f, ent.path) THEN Outcome(d, f, ent, "IO", 0, <<>>)
    ELSE LET p == canonicalize(d, f, ent.path).path
             f1 == [q \in DOMAIN f \ {p} |-> f[q]]
             pr == prune(d, f1, Front(ent.path))
         IN Outcome(pr.dirs, f1, ent, IF pr.ok THEN "Ok" ELSE "IO", 0, <<>>)

\* CacheLazyFile::remove.
remove(d, f, ent) ==
    IF ~exists(d, f, ent.path) THEN Outcome(d, f, ent, "Ok", 0, <<>>)
    ELSE IF ~is_file(d, f, ent.path) THEN Outcome(d, f, ent, "IO", 0, <<>>)
    ELSE LET p == canonicalize(d, f, ent.path).path
             f1 == [q \in DOMAIN f \ {p} |-> f[q]]
             pr == prune(d, f1, Front(ent.path))
         IN Outcome(pr.dirs, f1, ent, IF pr.ok THEN "Ok" ELSE "IO", 0, <<>>)

\* CacheLazyFile::is_locked / is_unlocked.
is_locked(ent) == ent.locked

is_unlocked(ent) == ~is_locked(ent)

\* Mutant: a lock that can be taken twice.
lock_reentrant(d, f, ent) ==
    Outcome(d, f, [ent EXCEPT !.locked = TRUE], "Ok", 0, <<>>)

\* CacheLazyFile::lock / unlock.
lock(d, f, ent) ==
    IF is_unlocked(ent)
    THEN Outcome(d, f, [ent EXCEPT !.locked = TRUE], "Ok", 0, <<>>)
    ELSE Outcome(d, f, ent, "FileAlreadyLocked", 0, <<>>)

unlock(d, f, ent) ==
    IF is_locked(ent)
    THEN Outcome(d, f, [ent EXCEPT !.locked = FALSE], "Ok", 0, <<>>)
    ELSE Outcome(d, f, ent, "FileAlreadyUnlocked", 0, <<>>)

\* ------------------------------------------------------------------- root
\* A caller-supplied relative path: its components as Path::components
\* yields them, and whether its last byte is '/'.
RelPath(comps, slash) == [comps |-> comps, slash |-> slash]

\* Path::to_str / OsStr::to_str is Some: every byte of the components is
\* valid UTF-8 (the separators between them are).
to_str_is_some(comps) == \A i \in 1..Len(comps) : comps[i] # NonUtf8

\* str::trim on a component name.
trim_is_empty(name) == name = Blank

\* Lines 854-856 of the loop: the pushed path is made a directory unless
\* something is already there.
made_dir(d, f, pushed) ==
    IF exists(d, f, pushed) THEN [ok |-> TRUE, dirs |-> d]
    ELSE create_dir(d, f, pushed)

\* Mutant: the containment check made on the pushed path instead of its
\* canonical form.
contained_raw(d, pushed, canon) ==
    [dirs |-> d,
     res |-> IF ~canon.ok THEN "IO"
             ELSE IF ~starts_with(pushed, Root) THEN "PathTraversal"
             ELSE "Ok"]

\* Lines 857-862: canon is the outcome of canonicalizing the pushed path,
\* which must lie under the root.
contained(d, pushed, canon) ==
    [dirs |-> d,
     res |-> IF ~canon.ok THEN "IO"
             ELSE IF ~starts_with(canon.path, Root) THEN "PathTraversal"
             ELSE "Ok"]

\* Mutant: an iteration that makes no containment check.
visit_unchecked(made, f, pushed) ==
    IF ~made.ok \/ ~canonicalize(made.dirs, f, pushed).ok
    THEN [dirs |-> made.dirs, res |-> "IO"]
    ELSE [dirs |-> made.dirs, res |-> "Ok"]

\* One iteration of the loop on the pushed path, made the outcome of
\* lines 854-856.
visit(made, f, pushed) ==
    IF ~made.ok THEN [dirs |-> made.dirs, res |-> "IO"]
    ELSE contained(made.dirs, pushed, canonicalize(made.dirs, f, pushed))

\* The loop of InnerDirCache::get_lazy over the parent components: push,
\* create the directory if absent, canonicalize, check containment; an
\* error ends it (v is the outcome of the iteration on pushed).
RECURSIVE resolve_parents(_, _, _, _)

\* Mutant: a walk that minds the containment check at the last parent only.
next_parent_last_only(v, f, pushed, rest) ==
    IF v.res = "Ok" \/ (v.res = "PathTraversal" /\ rest # <<>>)
    THEN resolve_parents(v.dirs, f, pushed, rest)
    ELSE [dirs |-> v.dirs, res |-> v.res, path |-> pushed]

next_parent(v, f, pushed, rest) ==
    IF v.res # "Ok" THEN [dirs |-> v.dirs, res |-> v.res, path |-> pushed]
    ELSE resolve_parents(v.dirs, f, pushed, rest)

resolve_parents(d, f, path, comps) ==
    IF comps = <<>> THEN [dirs |-> d, res |-> "Ok", path |-> path]
    ELSE next_parent(visit(made_dir(d, f, Append(path, Head(comps))), f,
                           Append(path, Head(comps))),
                     f, Append(path, Head(comps)), Tail(comps))

\* Mutant: an entry whose construction leaves an empty file at its path.
join_new_touching(rp, f, file_name, cb, interval) ==
    IF rp.res # "Ok"
    THEN Outcome(rp.dirs, f, Entry(<<>>, cb, interval), rp.res, 0, <<>>)
    ELSE IF exists(rp.dirs, f, Append(rp.path, file_name))
    THEN Outcome(rp.dirs, f, Entry(<<>>, cb, interval), "FileAlreadyExists",
                 0, <<>>)
    ELSE Outcome(rp.dirs,
                 f @@ (new_target(rp.dirs, f, Append(rp.path, file_name)).path
                         :> [content |-> <<>>, mtime |-> 0]),
                 Entry(Append(rp.path, file_name), cb, interval), "Ok", 0,
                 Append(rp.path, file_name))

\* Lines 865-866: the file name joined to the walked path and the entry
\* constructed, unless the walk failed (rp is its outcome).
join_new(rp, f, file_name, cb, interval) ==
    IF rp.res # "Ok"
    THEN Outcome(rp.dirs, f, Entry(<<>>, cb, interval), rp.res, 0, <<>>)
    ELSE CacheLazyFile_new(rp.dirs, f, Append(rp.path, file_name), cb, interval)

\* Mutant: the relative path joined to the root without walking its
\* parents.
get_lazy_joined(d, f, interval, rel, cb) ==
    IF rel.slash \/ rel.comps = <<>>
    THEN Outcome(d, f, Entry(<<>>, cb, interval), "InvalidPath", 0, <<>>)
    ELSE IF Last(rel.comps) = ParentDir \/ trim_is_empty(Last(rel.comps))
    THEN Outcome(d, f, Entry(<<>>, cb, interval), "InvalidPath", 0, <<>>)
    ELSE CacheLazyFile_new(d, f, Root \o rel.comps, cb, interval)

\* Mutant: a walk that fails with PathTraversal undoes what it created.
get_lazy_rolled_back(d, f, interval, rel, cb) ==
    IF (to_str_is_some(rel.comps) /\ rel.slash) \/ rel.comps = <<>>
    THEN Outcome(d, f, Entry(<<>>, cb, interval), "InvalidPath", 0, <<>>)
    ELSE IF \/ Last(rel.comps) = ParentDir
            \/ ~to_str_is_some(<<Last(rel.comps)>>)
            \/ trim_is_empty(Last(rel.comps))
    THEN Outcome(d, f, Entry(<<>>, cb, interval), "InvalidPath", 0, <<>>)
    ELSE IF resolve_parents(d, f, Root, Front(rel.comps)).res = "PathTraversal"
    THEN Outcome(d, f, Entry(<<>>, cb, interval), "PathTraversal", 0, <<>>)
    ELSE join_new(resolve_parents(d, f, Root, Front(rel.comps)), f,
                  Last(rel.comps), cb, interval)

\* InnerDirCache::get_lazy.
get_lazy(d, f, interval, rel, cb) ==
    IF (to_str_is_some(rel.comps) /\ rel.slash) \/ rel.comps = <<>>
    THEN Outcome(d, f, Entry(<<>>, cb, interval), "InvalidPath", 0, <<>>)
    ELSE IF \/ Last(rel.comps) = ParentDir
            \/ ~to_str_is_some(<<Last(rel.comps)>>)
            \/ trim_is_empty(Last(rel.comps))
    THEN Outcome(d, f, Entry(<<>>, cb, interval), "InvalidPath", 0, <<>>)
    ELSE join_new(resolve_parents(d, f, Root, Front(rel.comps)), f,
                  Last(rel.comps), cb, interval)

\* The ? of InnerDirCache::get: an error of get_lazy is returned, an entry
\* is initialized.
init_lazy(lazy, t, id) ==
    IF lazy.res # "Ok" THEN lazy
    ELSE init(lazy.dirs, lazy.files, t, id, lazy.ent)

\* InnerDirCache::get: get_lazy, then init.
get(d, f, t, interval, id, rel, cb) ==
    init_lazy(get_lazy(d, f, interval, rel, cb), t, id)

\* Lines 789-793 of InnerDirCache::new, on the outcome of lines 783-787
\* (made): the directory is canonicalized and becomes the root, under the
\* default refresh interval.
new_root(made, f, dir) ==
    IF ~made.ok \/ ~canonicalize(made.dirs, f, dir).ok
    THEN [dirs |-> made.dirs, res |-> "IO", root |-> <<>>,
          refresh_interval |-> DEFAULT_REFRESH_INTERVAL]
    ELSE [dirs |-> made.dirs, res |-> "Ok",
          root |-> canonicalize(made.dirs, f, dir).path,
          refresh_interval |-> DEFAULT_REFRESH_INTERVAL]

\* Mutant: a constructor that takes whatever is at the path for its root.
InnerDirCache_new_unchecked(d, f, dir) ==
    IF ~exists(d, f, dir) THEN new_root(create_dir_all(d, f, dir), f, dir)
    ELSE new_root([ok |-> TRUE, dirs |-> d], f, dir)

\* InnerDirCache::new.
InnerDirCache_new(d, f, dir) ==
    IF exists(d, f, dir) /\ ~is_dir(d, f, dir)
    THEN [dirs |-> d, res |-> "NotADirectory", root |-> <<>>,
          refresh_interval |-> DEFAULT_REFRESH_INTERVAL]
    ELSE IF ~exists(d, f, dir) THEN new_root(create_dir_all(d, f, dir), f, dir)
    ELSE new_root([ok |-> TRUE, dirs |-> d], f, dir)

\* InnerDirCache::with_refresh_interval(self, d): the root is moved over.
InnerDirCache_with_refresh_interval(cache, refresh_interval) ==
    [root |-> cache.root, refresh_interval |-> refresh_interval]

\* Mutant: a reset that leaves the interval as it is.
InnerDirCache_with_kept_refresh_interval(cache) == cache

\* InnerDirCache::with_default_refresh_interval(self).
InnerDirCache_with_default_refresh_interval(cache) ==
    InnerDirCache_with_refresh_interval(cache, DEFAULT_REFRESH_INTERVAL)

VARIABLES
    dirs,           \* the directories on disk
    files,          \* the regular files on disk: path -> [content, mtime]
    now,            \* the system clock
    root_interval,  \* InnerDirCache.refresh_interval
    entries,        \* the entries the caller holds: id -> CacheLazyFile
    last,           \* the last operation and what it returned
    threads         \* the calls in flight on concurrent threads

vars == <<dirs, files, now, root_interval, entries, last, threads>>

\* ----------------------------------------------------------------- inputs
\* Every relative path of at most MaxPathLen components: parents are "a" or
\* "..", the final component is "x", "a" (a file named like a directory),
\* "..", or a blank name; with and without a trailing '/'.  The empty path
\* is "".
ParentSeqs ==
    UNION {[1..n -> {"a", ParentDir}] : n \in 0..(MaxPathLen - 1)}

FinalNames == {"x", "a", ParentDir, Blank}

AllPaths ==
    {RelPath(<<>>, FALSE)} \cup
    {RelPath(Append(ps, c), sl) :
        ps \in ParentSeqs, c \in FinalNames, sl \in BOOLEAN}

\* The well-formed paths the entry lifecycle is exercised on: a file
\* directly under the root and two files sharing a parent directory.
LifePaths ==
    {RelPath(c, FALSE) : c \in {<<"x">>, <<"a", "x">>, <<"a", "y">>}}

NoEntries == [i \in {} |-> Entry(<<>>, "counter", 0)]

\* The state a call started from.
Pre ==
    [dirs |-> dirs, files |-> files, now |-> now, entries |-> entries,
     root_interval |-> root_interval]

\* The record of a call: the operation, the entry it was made on (or that
\* it returned), its argument, its Result, the number of producer
\* invocations it made, the payload of an Ok, and the state it started from.
Call(op, id, arg, res, calls, out) ==
    [op |-> op, id |-> id, arg |-> arg, res |-> res, calls |-> calls,
     out |-> out, pre |-> Pre]

Result(op, id, arg, r) == Call(op, id, arg, r.res, r.calls, r.out)

\* No result pending: the caller is between two calls.
Idle ==
    [op |-> "idle", id |-> 0, arg |-> <<>>, res |-> "Ok", calls |-> 0,
     out |-> <<>>, pre |-> <<>>]

\* A call on a thread of its own, between two filesystem calls: where it
\* is (pc), the operation (get, or get_lazy followed by create) with its
\* path and producer, the PathBuf being built and the parent components
\* still to push, and, once done, the Result, the step that produced it
\* (at), the number of producer invocations, and the file its exclusive
\* create made.  A method called on an entry the threads share names the
\* entry (id); out is what was read through the File an open() returned.
\* Two fields are history: bare says that no producer has written to the
\* file since this thread truncated it, and mid that the read was made
\* while another thread was between such a truncate and the end of its
\* producer.
Threads == 1..MaxThreads

NoThread ==
    [pc |-> "idle", op |-> "", rel |-> RelPath(<<>>, FALSE), cb |-> "",
     path |-> <<>>, rest |-> <<>>, res |-> "", at |-> "", calls |-> 0,
     made |-> <<>>, id |-> 0, out |-> <<>>, bare |-> FALSE, mid |-> FALSE]

Init ==
    /\ threads = [t \in Threads |-> NoThread]
    /\ dirs = {<<>>, Root}
    /\ files = [p \in {} |-> [content |-> <<>>, mtime |-> 0]]
    /\ now = 0
    /\ root_interval = DEFAULT_REFRESH_INTERVAL
    /\ entries = NoEntries
    /\ last = Idle

\* The model's caps on growth.
WithinBounds(r) ==
    /\ last = Idle
    /\ Cardinality(r.dirs) <= MaxDirs + 2
    /\ Cardinality(DOMAIN r.files) <= MaxFiles
    /\ r.ent.ctr <= MaxCalls

FreeId == CHOOSE i \in 1..(MaxEntries + 1) : i \notin DOMAIN entries

\* ---------------------------------------------------------------- actions
\* Cache::get_lazy(rel, cb); keep says whether the caller holds on to the
\* returned entry or drops it at once.
GetLazy(rel, cb, keep) ==
    /\ last = Idle
    /\ \E r \in {get_lazy(dirs, files, root_interval, rel, cb)} :
       /\ WithinBounds(r)
       /\ keep /\ r.res = "Ok" => FreeId <= MaxEntries
       /\ dirs' = r.dirs
       /\ files' = r.files
       /\ entries' = IF keep /\ r.res = "Ok" THEN entries @@ (FreeId :> r.ent)
                     ELSE entries
       /\ last' = Result("get_lazy", IF r.res = "Ok" THEN FreeId ELSE 0, rel, r)
       /\ UNCHANGED <<threads, now, root_interval>>

\* Cache::get(rel, cb).
Get(rel, cb, keep) ==
    /\ last = Idle
    /\ \E r \in {get(dirs, files, now, root_interval, FreeId, rel, cb)} :
       /\ WithinBounds(r)
       /\ FreeId <= MaxEntries
       /\ dirs' = r.dirs
       /\ files' = r.files
       /\ entries' = IF keep /\ r.res = "Ok" THEN entries @@ (FreeId :> r.ent)
                     ELSE entries
       /\ last' = Result("get", IF r.res = "Ok" THEN FreeId ELSE 0, rel, r)
       /\ UNCHANGED <<threads, now, root_interval>>

\* A method of entry id that borrows it (&self or &mut self).
Method(op, id, r) ==
    /\ WithinBounds(r)
    /\ dirs' = r.dirs
    /\ files' = r.files
    /\ entries' = [entries EXCEPT ![id] = r.ent]
    /\ last' = Result(op, id, <<>>, r)
    /\ UNCHANGED <<threads, now, root_interval>>

Create(id) ==
    /\ ~entries[id].init
    /\ Method("create", id, create(dirs, files, now, id, entries[id]))

Open(id) == Method("open", id, open(dirs, files, now, id, entries[id]))

\* open(), with the entry's successful opens counted.
OpenCounted(id) ==
    /\ last = Idle
    /\ \E r \in {open(dirs, files, now, id, entries[id])} :
       /\ entries[id].opens <= MaxCalls
       /\ Method("open", id,
                 [r EXCEPT !.ent.opens = @ + (IF r.res = "Ok" THEN 1 ELSE 0)])

Refresh(id) == Method("refresh", id, refresh(dirs, files, now, id, entries[id]))

ForceRefresh(id) ==
    Method("force_refresh", id, force_refresh(dirs, files, now, id, entries[id]))

Remove(id) == Method("remove", id, remove(dirs, files, entries[id]))

Lock(id) == Method("lock", id, lock(dirs, files, entries[id]))

Unlock(id) == Method("unlock", id, unlock(dirs, files, entries[id]))

\* CacheLazyFile::init(self): on an error the entry is gone with the call.
InitEntry(id) ==
    /\ last = Idle
    /\ ~entries[id].init
    /\ \E r \in {init(dirs, files, now, id, entries[id])} :
       /\ WithinBounds(r)
       /\ dirs' = r.dirs
       /\ files' = r.files
       /\ entries' = IF r.res = "Ok" THEN [entries EXCEPT ![id] = r.ent]
                     ELSE [i \in DOMAIN entries \ {id} |-> entries[i]]
       /\ last' = Result("init", id, <<>>, r)
       /\ UNCHANGED <<threads, now, root_interval>>

\* is_locked() / is_unlocked(): queries; the boolean is the payload.
IsLocked(id) ==
    /\ last = Idle
    /\ last' = Call("is_locked", id, <<>>, "Ok", 0, <<is_locked(entries[id])>>)
    /\ UNCHANGED <<threads, dirs, files, now, root_interval, entries>>

IsUnlocked(id) ==
    /\ last = Idle
    /\ last' = Call("is_unlocked", id, <<>>, "Ok", 0,
                     <<is_unlocked(entries[id])>>)
    /\ UNCHANGED <<threads, dirs, files, now, root_interval, entries>>

\* is_valid() / is_invalid(): queries; the boolean of an Ok is the payload.
IsValid(id) ==
    LET v == is_valid(dirs, files, now, entries[id])
    IN /\ last = Idle
       /\ last' = Call("is_valid", id, <<>>, v.res, 0,
                     IF v.res = "Ok" THEN <<v.val>> ELSE <<>>)
       /\ UNCHANGED <<threads, dirs, files, now, root_interval, entries>>

IsInvalid(id) ==
    LET v == is_invalid(dirs, files, now, entries[id])
    IN /\ last = Idle
       /\ last' = Call("is_invalid", id, <<>>, v.res, 0,
                     IF v.res = "Ok" THEN <<v.val>> ELSE <<>>)
       /\ UNCHANGED <<threads, dirs, files, now, root_interval, entries>>

\* valid_until(): a query; the instant of an Ok is the payload.
ValidUntil(id) ==
    /\ last = Idle
    /\ \E v \in {valid_until(dirs, files, entries[id])} :
           last' = Call("valid_until", id, <<>>, v.res, 0,
                        IF v.res = "Ok" THEN <<v.val>> ELSE <<>>)
    /\ UNCHANGED <<threads, dirs, files, now, root_interval, entries>>

\* CacheLazyFile::with_refresh_interval / with_default_refresh_interval.
with_refresh_interval(ent, interval) == [ent EXCEPT !.refresh_interval = interval]

\* Mutant: a reset to the library's constant.
with_library_refresh_interval(ent, cache_refresh_interval) ==
    [ent EXCEPT !.refresh_interval = DEFAULT_REFRESH_INTERVAL]

with_default_refresh_interval(ent, cache_refresh_interval) ==
    [ent EXCEPT !.refresh_interval = cache_refresh_interval]

WithRefreshInterval(id, interval) ==
    /\ last = Idle
    /\ entries' = [entries EXCEPT ![id] = with_refresh_interval(@, interval)]
    /\ last' = Call("with_refresh_interval", id, interval, "Ok", 0,
                     <<>>)
    /\ UNCHANGED <<threads, dirs, files, now, root_interval>>

WithDefaultRefreshInterval(id) ==
    /\ last = Idle
    /\ entries' = [entries EXCEPT
                      ![id] = with_default_refresh_interval(@, root_interval)]
    /\ last' = Call("with_default_refresh_interval", id, <<>>, "Ok", 0,
                     <<>>)
    /\ UNCHANGED <<threads, dirs, files, now, root_interval>>

\* The cache the caller holds.
ThisCache == [root |-> Root, refresh_interval |-> root_interval]

\* Cache::with_refresh_interval(self, d) / with_default_refresh_interval(self):
\* they move the cache, which the borrow checker allows only while no entry
\* borrows it; out is the root of the cache they return.
CacheWithRefreshInterval(interval) ==
    /\ last = Idle
    /\ DOMAIN entries = {}
    /\ \E c \in {InnerDirCache_with_refresh_interval(ThisCache, interval)} :
           /\ root_interval' = c.refresh_interval
           /\ last' = Call("cache_with_refresh_interval", 0, interval, "Ok", 0,
                            c.root)
    /\ UNCHANGED <<threads, dirs, files, now, entries>>

CacheWithDefaultRefreshInterval ==
    /\ last = Idle
    /\ DOMAIN entries = {}
    /\ \E c \in {InnerDirCache_with_default_refresh_interval(ThisCache)} :
           /\ root_interval' = c.refresh_interval
           /\ last' = Call("cache_with_default_refresh_interval", 0, <<>>, "Ok",
                            0, c.root)
    /\ UNCHANGED <<threads, dirs, files, now, entries>>

\* The caller drops an entry: no destructor, no filesystem effect.
Drop(id) ==
    /\ last = Idle
    /\ entries' = [i \in DOMAIN entries \ {id} |-> entries[i]]
    /\ last' = Call("drop", id, <<>>, "Ok", 0,
                     <<>>)
    /\ UNCHANGED <<threads, dirs, files, now, root_interval>>

\* The caller takes the result of the call it made.
Return ==
    /\ last # Idle
    /\ last' = Idle
    /\ UNCHANGED <<threads, dirs, files, now, root_interval, entries>>

\* Time passes.
Tick ==
    /\ last = Idle
    /\ now < MaxTime
    /\ now' = now + 1
    /\ UNCHANGED <<threads, dirs, files, root_interval, entries, last>>

\* The system clock is set back.
ClockBack ==
    /\ last = Idle
    /\ now > 0
    /\ now' = now - 1
    /\ UNCHANGED <<threads, dirs, files, root_interval, entries, last>>

\* The entry lifecycle on well-formed paths.
Next ==
    \/ \E rel \in LifePaths, cb \in Callbacks : GetLazy(rel, cb, TRUE)
    \/ \E rel \in LifePaths, cb \in Callbacks : Get(rel, cb, TRUE)
    \/ \E id \in DOMAIN entries : Create(id)
    \/ \E id \in DOMAIN entries : Open(id)
    \/ \E id \in DOMAIN entries : Refresh(id)
    \/ \E id \in DOMAIN entries : ForceRefresh(id)
    \/ \E id \in DOMAIN entries : Remove(id)
    \/ \E id \in DOMAIN entries : InitEntry(id)
    \/ \E id \in DOMAIN entries : IsValid(id)
    \/ \E id \in DOMAIN entries : IsInvalid(id)
    \/ \E id \in DOMAIN entries, iv \in Intervals : WithRefreshInterval(id, iv)
    \/ \E id \in DOMAIN entries : WithDefaultRefreshInterval(id)
    \/ \E id \in DOMAIN entries : Drop(id)
    \/ Return
    \/ Tick

Spec == Init /\ [][Next]_vars

\* The path resolver on every relative path, the returned entry dropped.
NextGet ==
    \/ \E rel \in AllPaths, cb \in Callbacks : GetLazy(rel, cb, FALSE)
    \/ \E rel \in AllPaths, cb \in Callbacks : Get(rel, cb, FALSE)
    \/ Return

SpecGet == Init /\ [][NextGet]_vars

\* Entries used through open() alone, under whatever interval the root was
\* given before they were made: nothing but get and open runs a producer.
NextOpen ==
    \/ \E iv \in Intervals : CacheWithRefreshInterval(iv)
    \/ \E rel \in LifePaths, cb \in Callbacks : GetLazy(rel, cb, TRUE)
    \/ \E rel \in LifePaths, cb \in Callbacks : Get(rel, cb, TRUE)
    \/ \E id \in DOMAIN entries : OpenCounted(id)
    \/ \E id \in DOMAIN entries : Remove(id)
    \/ \E id \in DOMAIN entries : Drop(id)
    \/ Return
    \/ Tick

SpecOpen == Init /\ [][NextOpen]_vars

\* The advisory lock flag beside the operations documented to respect it:
\* entries of one path, made under whatever interval the root was given,
\* locked and unlocked while time passes and they are opened and refreshed.
LockPaths == {RelPath(<<"a", "x">>, FALSE)}

NextLock ==
    \/ \E iv \in Intervals : CacheWithRefreshInterval(iv)
    \/ CacheWithDefaultRefreshInterval
    \/ \E rel \in LockPaths, cb \in Callbacks : GetLazy(rel, cb, TRUE)
    \/ \E rel \in LockPaths, cb \in Callbacks : Get(rel, cb, TRUE)
    \/ \E id \in DOMAIN entries : Lock(id)
    \/ \E id \in DOMAIN entries : Unlock(id)
    \/ \E id \in DOMAIN entries : IsLocked(id)
    \/ \E id \in DOMAIN entries : IsUnlocked(id)
    \/ \E id \in DOMAIN entries : Open(id)
    \/ \E id \in DOMAIN entries : Refresh(id)
    \/ \E id \in DOMAIN entries : ForceRefresh(id)
    \/ \E id \in DOMAIN entries : Drop(id)
    \/ Return
    \/ Tick

SpecLock == Init /\ [][NextLock]_vars

\* Removal in a tree of nested directories: files one to four levels below
\* the root, a sibling beside the first level, and entries whose path steps
\* back through "..".
RemovePaths ==
    {RelPath(c, FALSE) :
        c \in {<<"x">>, <<"a", "x">>, <<"a", "y">>, <<"a", "a", "x">>,
               <<"a", "a", "a", "x">>, <<"a", ParentDir, "x">>,
               <<"a", "a", ParentDir, "x">>}}

NextRemove ==
    \/ \E iv \in {0} : CacheWithRefreshInterval(iv)
    \/ \E rel \in RemovePaths, cb \in Callbacks : GetLazy(rel, cb, TRUE)
    \/ \E rel \in RemovePaths, cb \in Callbacks : Get(rel, cb, TRUE)
    \/ \E id \in DOMAIN entries : Open(id)
    \/ \E id \in DOMAIN entries : Refresh(id)
    \/ \E id \in DOMAIN entries : ForceRefresh(id)
    \/ \E id \in DOMAIN entries : Remove(id)
    \/ \E id \in DOMAIN entries : Drop(id)
    \/ Return

SpecRemove == Init /\ [][NextRemove]_vars

\* The path checks on short paths of every kind of name: plain, blank,
\* "..", and not valid UTF-8; with and without a trailing '/'.
Names == {"a", "x", Blank, ParentDir, NonUtf8}

NamePaths ==
    {RelPath(<<>>, FALSE)} \cup
    {RelPath(c, sl) : c \in UNION {[1..n -> Names] : n \in 1..MaxNameLen},
                      sl \in BOOLEAN}

NextNames ==
    \/ \E rel \in NamePaths, cb \in Callbacks : GetLazy(rel, cb, FALSE)
    \/ \E rel \in NamePaths, cb \in Callbacks : Get(rel, cb, FALSE)
    \/ Return

SpecNames == Init /\ [][NextNames]_vars

\* ---------------------------------------------------------------- threads
\* Calls made on several threads through one shared root (Arc<Cache>).
\* Every filesystem call is one step; the steps of different threads
\* interleave freely.
Goto(th, pc) == [th EXCEPT !.pc = pc]

Finish(th, res) == [th EXCEPT !.pc = "done", !.res = res, !.at = th.pc]

Step(t, th) ==
    /\ threads' = [threads EXCEPT ![t] = th]
    /\ UNCHANGED <<now, root_interval, entries, last>>

\* A thread calls get(rel, cb), or get_lazy(rel, cb) and then create().
Spawn(t, op, rel, cb) ==
    /\ threads[t].pc = "idle"
    /\ Step(t, [NoThread EXCEPT !.pc = "start", !.op = op, !.rel = rel,
                                !.cb = cb])
    /\ UNCHANGED <<dirs, files>>

\* get_lazy, lines 829-851: the checks on the path, made without touching
\* the disk.
Validate(t) ==
    /\ threads[t].pc = "start"
    /\ Step(t, IF get_lazy(dirs, files, root_interval, threads[t].rel,
                           threads[t].cb).res = "InvalidPath"
               THEN Finish(threads[t], "InvalidPath")
               ELSE [threads[t] EXCEPT !.pc = "push", !.path = Root,
                                       !.rest = Front(threads[t].rel.comps)])
    /\ UNCHANGED <<dirs, files>>

\* Lines 852-854: the next parent component is pushed and path.exists()
\* looked up; after the last one the file name is joined.
Push(t) ==
    /\ threads[t].pc = "push"
    /\ Step(t, IF threads[t].rest = <<>> THEN Goto(threads[t], "new")
               ELSE [threads[t] EXCEPT
                        !.path = Append(@, Head(threads[t].rest)),
                        !.rest = Tail(@),
                        !.pc = IF exists(dirs, files,
                                         Append(threads[t].path,
                                                Head(threads[t].rest)))
                               THEN "canon" ELSE "mkdir"])
    /\ UNCHANGED <<dirs, files>>

\* Line 855: fs::create_dir on the path found absent.
Mkdir(t) ==
    /\ threads[t].pc = "mkdir"
    /\ \E r \in {create_dir(dirs, files, threads[t].path)} :
           /\ Cardinality(r.dirs) <= MaxDirs + 2
           /\ dirs' = r.dirs
           /\ Step(t, IF r.ok THEN Goto(threads[t], "canon")
                      ELSE Finish(threads[t], "IO"))
    /\ UNCHANGED files

\* Lines 857-862: canonicalize and the containment check.
Canon(t) ==
    /\ threads[t].pc = "canon"
    /\ \E v \in {contained(dirs, threads[t].path,
                            canonicalize(dirs, files, threads[t].path))} :
           Step(t, IF v.res = "Ok" THEN Goto(threads[t], "push")
                   ELSE Finish(threads[t], v.res))
    /\ UNCHANGED <<dirs, files>>

\* Lines 865-866: the file name is joined and CacheLazyFile::new looks the
\* path up; get goes on to init, the other caller to create.
New(t) ==
    /\ threads[t].pc = "new"
    /\ \E r \in {CacheLazyFile_new(dirs, files,
                                    Append(threads[t].path,
                                           Last(threads[t].rel.comps)),
                                    threads[t].cb, root_interval)} :
           Step(t, IF r.res = "Ok"
                   THEN [threads[t] EXCEPT
                            !.path = r.ent.path,
                            !.pc = IF threads[t].op = "get" THEN "init"
                                   ELSE "create"]
                   ELSE Finish(threads[t], r.res))
    /\ UNCHANGED <<dirs, files>>

\* init, line 658: path.exists(); a file that is there is wrapped as it is.
InitCheck(t) ==
    /\ threads[t].pc = "init"
    /\ Step(t, IF exists(dirs, files, threads[t].path)
               THEN Finish(threads[t], "Ok")
               ELSE Goto(threads[t], "create"))
    /\ UNCHANGED <<dirs, files>>

\* Mutant: a create that, finding the file made by someone else, goes on
\* to read it.
CreateNewOrRead(t) ==
    /\ threads[t].pc = "create"
    /\ \E tgt \in {new_target(dirs, files, threads[t].path)} :
           /\ tgt.ok => Cardinality(DOMAIN files) < MaxFiles
           /\ files' = IF tgt.ok
                       THEN files @@ (tgt.path :> [content |-> <<>>,
                                                   mtime |-> now])
                       ELSE files
           /\ Step(t, IF tgt.ok
                      THEN [threads[t] EXCEPT !.pc = "callback",
                                              !.made = tgt.path]
                      ELSE IF is_file(dirs, files, threads[t].path)
                      THEN Goto(threads[t], "read")
                      ELSE Finish(threads[t], "IO"))
    /\ UNCHANGED dirs

\* create, lines 474-478: the exclusive create (O_CREAT | O_EXCL).
CreateNew(t) ==
    /\ threads[t].pc = "create"
    /\ \E tgt \in {new_target(dirs, files, threads[t].path)} :
           /\ tgt.ok => Cardinality(DOMAIN files) < MaxFiles
           /\ files' = IF tgt.ok
                       THEN files @@ (tgt.path :> [content |-> <<>>,
                                                   mtime |-> now])
                       ELSE files
           /\ Step(t, IF tgt.ok
                      THEN [threads[t] EXCEPT !.pc = "callback",
                                              !.made = tgt.path]
                      ELSE Finish(threads[t], "IO"))
    /\ UNCHANGED dirs

\* create, line 479: the producer runs on the handle of the new file.
RunCallback(t) ==
    /\ threads[t].pc = "callback"
    /\ \E c \in {callback(dirs, files, now, t,
                           Entry(threads[t].path, threads[t].cb,
                                 root_interval),
                           threads[t].made)} :
           /\ files' = c.files
           /\ Step(t, IF c.res = "Ok"
                      THEN [threads[t] EXCEPT !.pc = "reopen",
                                              !.calls = @ + c.calls]
                      ELSE [Finish(threads[t], c.res) EXCEPT
                               !.calls = @ + c.calls])
    /\ UNCHANGED dirs

\* create, line 480: the file is reopened for reading.
Reopen(t) ==
    /\ threads[t].pc = "reopen"
    /\ Step(t, Finish(threads[t],
                      open_read(dirs, files,
                                Entry(threads[t].path, threads[t].cb,
                                      root_interval), 0).res))
    /\ UNCHANGED <<dirs, files>>

\* What the threads call: get, or get_lazy and then create, on a file
\* directly under the root and on two files of one directory.
ThreadOps == {"get", "create"}

NextRace ==
    \/ \E t \in Threads, op \in ThreadOps, rel \in LifePaths, cb \in Callbacks :
           Spawn(t, op, rel, cb)
    \/ \E t \in Threads : Validate(t)
    \/ \E t \in Threads : Push(t)
    \/ \E t \in Threads : Mkdir(t)
    \/ \E t \in Threads : Canon(t)
    \/ \E t \in Threads : New(t)
    \/ \E t \in Threads : InitCheck(t)
    \/ \E t \in Threads : CreateNew(t)
    \/ \E t \in Threads : RunCallback(t)
    \/ \E t \in Threads : Reopen(t)

SpecRace == Init /\ [][NextRace]_vars

\* Methods called through a shared reference to one entry (they take
\* &self; the producer is Send + Sync), one filesystem call a step.
MethodOps == {"open", "refresh", "force_refresh"}

SpawnMethod(t, op, id) ==
    /\ last = Idle
    /\ threads[t].pc = "idle"
    /\ Step(t, [NoThread EXCEPT
                   !.pc = (IF op = "open" THEN "exists"
                           ELSE IF op = "refresh" THEN "metadata"
                           ELSE "truncate"),
                   !.op = op, !.id = id, !.path = entries[id].path,
                   !.cb = entries[id].cb])
    /\ UNCHANGED <<dirs, files>>

\* open, line 514: path.exists(); an absent file is created.
OpenExists(t) ==
    /\ threads[t].pc = "exists"
    /\ Step(t, IF exists(dirs, files, threads[t].path)
               THEN Goto(threads[t], "metadata")
               ELSE Goto(threads[t], "create"))
    /\ UNCHANGED <<dirs, files>>

\* refresh, line 548: is_invalid() reads the metadata and the clock; a valid
\* file is left alone (and, in open, read).
Metadata(t) ==
    /\ threads[t].pc = "metadata"
    /\ \E v \in {is_invalid(dirs, files, now, entries[threads[t].id])} :
           Step(t, IF v.res # "Ok" THEN Finish(threads[t], v.res)
                   ELSE IF v.val THEN Goto(threads[t], "truncate")
                   ELSE IF threads[t].op = "open" THEN Goto(threads[t], "read")
                   ELSE Finish(threads[t], "Ok"))
    /\ UNCHANGED <<dirs, files>>

\* Mutant: the file opened for writing without being truncated.
truncate_keeping(f, p, t) == f

\* force_refresh, lines 579-584: opening with truncate(true) empties the
\* file at once.
truncate(f, p, t) == write_file(f, p, <<>>, t)

Truncate(t) ==
    /\ threads[t].pc = "truncate"
    /\ files' = IF is_file(dirs, files, threads[t].path)
                THEN truncate(files,
                              canonicalize(dirs, files, threads[t].path).path,
                              now)
                ELSE files
    /\ Step(t, IF is_file(dirs, files, threads[t].path)
               THEN [threads[t] EXCEPT !.pc = "produce", !.bare = TRUE]
               ELSE Finish(threads[t], "IO"))
    /\ UNCHANGED dirs

\* force_refresh, line 585: the producer writes through the handle.
Produce(t) ==
    /\ threads[t].pc = "produce"
    /\ \E c \in {callback(dirs, files, now, threads[t].id,
                           entries[threads[t].id],
                           canonicalize(dirs, files, threads[t].path).path)} :
           /\ c.ent.ctr <= MaxCalls + 1
           /\ files' = c.files
           /\ entries' = [entries EXCEPT ![threads[t].id] = c.ent]
           /\ threads' =
                  [u \in Threads |->
                      IF u = t
                      THEN [(IF c.res # "Ok" THEN Finish(threads[t], c.res)
                             ELSE IF threads[t].op = "open"
                             THEN Goto(threads[t], "read")
                             ELSE Finish(threads[t], "Ok"))
                            EXCEPT !.calls = @ + c.calls,
                                   !.bare = @ /\ c.files = files]
                      ELSE [threads[u] EXCEPT
                               !.bare = @ /\ (\/ c.files = files
                                              \/ threads[u].path
                                                     # threads[t].path)]]
    /\ UNCHANGED <<dirs, now, root_interval, last>>

\* Another thread has truncated the file at path, its producer has not
\* finished, and nothing was written to the file since.
MidRefresh(t, path) ==
    \E u \in Threads \ {t} :
        threads[u].pc = "produce" /\ threads[u].path = path /\ threads[u].bare

\* open, line 516: the file is opened read-only; out is what the caller
\* reads through the handle.
Read(t) ==
    /\ threads[t].pc = "read"
    /\ \E r \in {open_read(dirs, files, entries[threads[t].id], 0)} :
           Step(t, [Finish(threads[t], r.res) EXCEPT
                       !.out = r.out,
                       !.mid = MidRefresh(t, threads[t].path)])
    /\ UNCHANGED <<dirs, files>>

\* One entry, made by get under the interval the root was given, then used
\* from several threads at once while time passes.
NextReader ==
    \/ \E iv \in {0} : CacheWithRefreshInterval(iv)
    \/ \E rel \in LockPaths, cb \in Callbacks : Get(rel, cb, TRUE)
    \/ \E t \in Threads, op \in MethodOps, id \in DOMAIN entries :
           SpawnMethod(t, op, id)
    \/ \E t \in Threads : OpenExists(t)
    \/ \E t \in Threads : Metadata(t)
    \/ \E t \in Threads : Truncate(t)
    \/ \E t \in Threads : Produce(t)
    \/ \E t \in Threads : Read(t)
    \/ Return
    \/ Tick

SpecReader == Init /\ [][NextReader]_vars

\* Construction of a root on a disk that holds anything: directories "c"
\* and "d" nested up to MaxNameLen deep, at most one regular file among them;
\* the target is any path of up to MaxNameLen + 1 components over "c", "d"
\* and "..".
NewNames == {"c", "d"}

NewNodes == UNION {[1..n -> NewNames] : n \in 1..MaxNameLen}

NewDisks ==
    {ds \in SUBSET NewNodes :
        /\ Cardinality(ds) <= MaxDirs
        /\ \A p \in ds : Len(p) > 1 => Front(p) \in ds}

NewTargets ==
    UNION {[1..n -> NewNames \cup {ParentDir}] : n \in 1..(MaxNameLen + 1)}

InitNew ==
    /\ threads = [t \in Threads |-> NoThread]
    /\ \E ds \in NewDisks :
           /\ dirs = ds \cup {<<>>}
           /\ \E fs \in SUBSET {p \in NewNodes \ ds : Front(p) \in dirs} :
                  /\ Cardinality(fs) <= 1
                  /\ files = [p \in fs |-> [content |-> <<>>, mtime |-> 0]]
    /\ now = 0
    /\ root_interval = DEFAULT_REFRESH_INTERVAL
    /\ entries = NoEntries
    /\ last = Idle

\* fcache::with_dir(dir): out is the root of the cache it returns.
WithDir(dir) ==
    /\ last = Idle
    /\ \E r \in {InnerDirCache_new(dirs, files, dir)} :
           /\ Cardinality(r.dirs) <= MaxDirs + 2
           /\ dirs' = r.dirs
           /\ root_interval' = r.refresh_interval
           /\ last' = Call("with_dir", 0, dir, r.res, 0, r.root)
    /\ UNCHANGED <<threads, files, now, entries>>

NextNew ==
    \/ \E dir \in NewTargets : WithDir(dir)
    \/ Return

SpecNew == InitNew /\ [][NextNew]_vars

\* The validity queries on entries of every interval, before their file is
\* made, while it is there and after it was removed.
NextValidity ==
    \/ \E rel \in LifePaths, cb \in Callbacks : GetLazy(rel, cb, TRUE)
    \/ \E rel \in LifePaths, cb \in Callbacks : Get(rel, cb, TRUE)
    \/ \E id \in DOMAIN entries, iv \in Intervals : WithRefreshInterval(id, iv)
    \/ \E id \in DOMAIN entries : Open(id)
    \/ \E id \in DOMAIN entries : Remove(id)
    \/ \E id \in DOMAIN entries : IsValid(id)
    \/ \E id \in DOMAIN entries : IsInvalid(id)
    \/ \E id \in DOMAIN entries : ValidUntil(id)
    \/ \E id \in DOMAIN entries : Drop(id)
    \/ Return
    \/ Tick

SpecValidity == Init /\ [][NextValidity]_vars

\* fcache::with_dir on the root directory, once the caller has let go of
\* the cache it held and of its entries.
NewCache ==
    /\ DOMAIN entries = {}
    /\ WithDir(Root)

\* Refresh intervals: a root constructed and reconfigured, entries made
\* under it, locked, unlocked and given intervals of their own.
NextInterval ==
    \/ NewCache
    \/ \E iv \in Intervals : CacheWithRefreshInterval(iv)
    \/ CacheWithDefaultRefreshInterval
    \/ \E rel \in LifePaths, cb \in Callbacks : GetLazy(rel, cb, TRUE)
    \/ \E rel \in LifePaths, cb \in Callbacks : Get(rel, cb, TRUE)
    \/ \E id \in DOMAIN entries : Lock(id)
    \/ \E id \in DOMAIN entries : Unlock(id)
    \/ \E id \in DOMAIN entries, iv \in Intervals : WithRefreshInterval(id, iv)
    \/ \E id \in DOMAIN entries : WithDefaultRefreshInterval(id)
    \/ \E id \in DOMAIN entries : Drop(id)
    \/ Return

SpecInterval == Init /\ [][NextInterval]_vars

\* The order of the resolver's checks: paths of up to MaxNameLen + 1
\* components that are plain, blank, ".." or not valid UTF-8, with and
\* without a trailing '/'.
OrderNames == {"x", Blank, ParentDir, NonUtf8}

OrderPaths ==
    {RelPath(<<>>, FALSE)} \cup
    {RelPath(c, sl) :
        c \in UNION {[1..n -> OrderNames] : n \in 1..(MaxNameLen + 1)},
        sl \in BOOLEAN}

NextOrder ==
    \/ \E rel \in OrderPaths, cb \in Callbacks : GetLazy(rel, cb, FALSE)
    \/ \E rel \in OrderPaths, cb \in Callbacks : Get(rel, cb, FALSE)
    \/ Return

SpecOrder == Init /\ [][NextOrder]_vars

\* The walk on paths that can leave the root and come back: the parents
\* are "a", ".." and the root directory's own name.
PrefixParents ==
    UNION {[1..n -> {"a", ParentDir, Root[1]}] : n \in 0..MaxNameLen}

PrefixPaths ==
    {RelPath(Append(ps, c), sl) :
        ps \in PrefixParents, c \in {"x", "a", ParentDir}, sl \in BOOLEAN}

NextPrefix ==
    \/ \E rel \in PrefixPaths, cb \in Callbacks : GetLazy(rel, cb, FALSE)
    \/ \E rel \in PrefixPaths, cb \in Callbacks : Get(rel, cb, FALSE)
    \/ Return

SpecPrefix == Init /\ [][NextPrefix]_vars

\* Entries of every interval used while the clock runs and is set back, so
\* that a file can carry a modification time later than the current time.
NextSkew ==
    \/ \E rel \in LifePaths, cb \in Callbacks : GetLazy(rel, cb, TRUE)
    \/ \E rel \in LifePaths, cb \in Callbacks : Get(rel, cb, TRUE)
    \/ \E id \in DOMAIN entries, iv \in Intervals : WithRefreshInterval(id, iv)
    \/ \E id \in DOMAIN entries : Open(id)
    \/ \E id \in DOMAIN entries : Refresh(id)
    \/ \E id \in DOMAIN entries : IsValid(id)
    \/ \E id \in DOMAIN entries : IsInvalid(id)
    \/ \E id \in DOMAIN entries : Drop(id)
    \/ Return
    \/ Tick
    \/ ClockBack

SpecSkew == Init /\ [][NextSkew]_vars

\* The lock flag beside every operation of an entry: entries of one path
\* locked, unlocked, created, opened, refreshed, removed, initialized and
\* given other intervals while time passes.
NextFlag ==
    \/ \E rel \in LockPaths, cb \in Callbacks : GetLazy(rel, cb, TRUE)
    \/ \E rel \in LockPaths, cb \in Callbacks : Get(rel, cb, TRUE)
    \/ \E id \in DOMAIN entries : Lock(id)
    \/ \E id \in DOMAIN entries : Unlock(id)
    \/ \E id \in DOMAIN entries : Create(id)
    \/ \E id \in DOMAIN entries : Open(id)
    \/ \E id \in DOMAIN entries : Refresh(id)
    \/ \E id \in DOMAIN entries : ForceRefresh(id)
    \/ \E id \in DOMAIN entries : Remove(id)
    \/ \E id \in DOMAIN entries : InitEntry(id)
    \/ \E id \in DOMAIN entries, iv \in Intervals : WithRefreshInterval(id, iv)
    \/ \E id \in DOMAIN entries : WithDefaultRefreshInterval(id)
    \/ \E id \in DOMAIN entries : Drop(id)
    \/ Return
    \/ Tick

SpecFlag == Init /\ [][NextFlag]_vars

\* What changes a file: entries of every interval created, opened,
\* refreshed and queried while time passes.
NextFrame ==
    \/ \E rel \in LifePaths, cb \in Callbacks : GetLazy(rel, cb, TRUE)
    \/ \E rel \in LifePaths, cb \in Callbacks : Get(rel, cb, TRUE)
    \/ \E id \in DOMAIN entries, iv \in Intervals : WithRefreshInterval(id, iv)
    \/ \E id \in DOMAIN entries : Create(id)
    \/ \E id \in DOMAIN entries : Open(id)
    \/ \E id \in DOMAIN entries : Refresh(id)
    \/ \E id \in DOMAIN entries : ForceRefresh(id)
    \/ \E id \in DOMAIN entries : IsValid(id)
    \/ \E id \in DOMAIN entries : IsInvalid(id)
    \/ \E id \in DOMAIN entries : ValidUntil(id)
    \/ \E id \in DOMAIN entries : Drop(id)
    \/ Return
    \/ Tick

SpecFrame == Init /\ [][NextFrame]_vars

\* Several entries held at once for one path, up to MaxAliases of them:
\* get_lazy while other entries are held.
AliasId == CHOOSE i \in 1..(MaxAliases + 1) : i \notin DOMAIN entries

GetLazyAliased(rel, cb) ==
    /\ last = Idle
    /\ Cardinality(DOMAIN entries) < MaxAliases
    /\ \E r \in {get_lazy(dirs, files, root_interval, rel, cb)} :
       /\ WithinBounds(r)
       /\ dirs' = r.dirs
       /\ files' = r.files
       /\ entries' = IF r.res = "Ok" THEN entries @@ (AliasId :> r.ent)
                     ELSE entries
       /\ last' = Result("get_lazy", IF r.res = "Ok" THEN AliasId ELSE 0, rel, r)
       /\ UNCHANGED <<threads, now, root_interval>>

NextAlias ==
    \/ \E rel \in LockPaths, cb \in Callbacks : GetLazyAliased(rel, cb)
    \/ \E id \in DOMAIN entries, iv \in Intervals : WithRefreshInterval(id, iv)
    \/ \E id \in DOMAIN entries : Open(id)
    \/ \E id \in DOMAIN entries : Drop(id)
    \/ Return
    \/ Tick

SpecAlias == Init /\ [][NextAlias]_vars

\* open() called from several threads on Lazy entries of one path whose
\* file is not there yet, one filesystem call a step.
NextOpenRace ==
    \/ \E iv \in {0} : CacheWithRefreshInterval(iv)
    \/ \E rel \in LockPaths, cb \in Callbacks : GetLazyAliased(rel, cb)
    \/ \E t \in Threads, id \in DOMAIN entries : SpawnMethod(t, "open", id)
    \/ \E t \in Threads : OpenExists(t)
    \/ \E t \in Threads : Metadata(t)
    \/ \E t \in Threads : Truncate(t)
    \/ \E t \in Threads : Produce(t)
    \/ \E t \in Threads : Read(t)
    \/ \E t \in Threads : CreateNew(t)
    \/ \E t \in Threads : RunCallback(t)
    \/ \E t \in Threads : Reopen(t)
    \/ Return
    \/ Tick

SpecOpenRace == Init /\ [][NextOpenRace]_vars

\* ----------------------------------------------------------------- claims
\* Lexical resolution of components from cur: ".." steps to the parent.
RECURSIVE lexical(_, _)
lexical(cur, comps) ==
    IF comps = <<>> THEN cur
    ELSE lexical(IF Head(comps) = ParentDir
                 THEN (IF cur = <<>> THEN cur ELSE Front(cur))
                 ELSE Append(cur, Head(comps)),
                 Tail(comps))

Inside(p) == starts_with(p, Root)

IsGet == last.op \in {"get", "get_lazy"}

\* The relative path resolves outside the cache root.
Escapes(rel) == ~Inside(lexical(Root, rel.comps))

\* No trailing separator and a plain, non-blank final component.
WellFormed(rel) ==
    /\ ~rel.slash
    /\ rel.comps # <<>>
    /\ Last(rel.comps) \notin {ParentDir, Blank}

\* The first k parent components of rel, resolved from the root.
Prefix(rel, k) == lexical(Root, SubSeq(rel.comps, 1, k))

\* Some proper prefix of the parents names a regular file of f, and no
\* shorter prefix leaves the root: the walk fails there with an IO error.
ThroughFile(f, rel) ==
    \E k \in 1..(Len(rel.comps) - 2) :
        /\ Prefix(rel, k) \in DOMAIN f
        /\ \A j \in 1..k : Inside(Prefix(rel, j))

C2_Inside ==
    (IsGet /\ last.res = "Ok") =>
        /\ Inside(lexical(<<>>, last.out))
        /\ lexical(<<>>, last.out) # Root
        /\ Last(last.out) = Last(last.arg.comps)
        /\ canonicalize(dirs, files, Front(last.out)).ok
        /\ Inside(canonicalize(dirs, files, Front(last.out)).path)
        /\ last.op = "get" =>
               /\ is_file(dirs, files, last.out)
               /\ Inside(canonicalize(dirs, files, last.out).path)

C2_Witness ==
    /\ last.op = "get"
    /\ last.res = "Ok"
    /\ last.arg = RelPath(<<"a", "a", ParentDir, "x">>, FALSE)
    /\ last.out = Root \o <<"a", "a", ParentDir, "x">>

\* Every parent prefix of rel resolves inside the cache root.
ParentsInside(rel) ==
    \A k \in 1..(Len(rel.comps) - 1) : Inside(Prefix(rel, k))

OnEntry == last.op # "idle" /\ last.id \in DOMAIN last.pre.entries

\* That entry, and its file, as the call found them.
PreEnt == last.pre.entries[last.id]

PreExists == exists(last.pre.dirs, last.pre.files, PreEnt.path)

PreIsFile == is_file(last.pre.dirs, last.pre.files, PreEnt.path)

PreFile ==
    last.pre.files[canonicalize(last.pre.dirs, last.pre.files, PreEnt.path).path]

PreParentIsDir ==
    /\ canonicalize(last.pre.dirs, last.pre.files, Front(PreEnt.path)).ok
    /\ canonicalize(last.pre.dirs, last.pre.files, Front(PreEnt.path)).path
           \in last.pre.dirs

\* Time since the file was last modified, when the call was made.
Elapsed == last.pre.now - PreFile.mtime

\* The file was within its refresh interval when the call was made.
PreValid == PreIsFile /\ Elapsed >= 0 /\ Elapsed < PreEnt.refresh_interval

\* The call changed nothing on disk.
DiskUnchanged == dirs = last.pre.dirs /\ files = last.pre.files

\* The entry's file after the call.
PostFile == files[canonicalize(dirs, files, PreEnt.path).path]

\* C3 as stated: open() on a Lazy entry whose file does not exist creates
\* the file and runs the producer exactly once; a second open() while the
\* file is within its refresh interval does not run the producer.
C3_Original ==
    /\ (last.op = "open" /\ ~PreEnt.init /\ ~PreExists) =>
           (last.calls = 1 /\ is_file(dirs, files, PreEnt.path))
    /\ (last.op = "open" /\ ~PreEnt.init /\ PreValid) => last.calls = 0

\* C3 amended: open() on a Lazy entry whose file does not exist and whose
\* parent directory exists creates the file and runs the producer exactly
\* once; when the parent directory is gone it fails with IO, creates
\* nothing and does not run the producer.  An open() while the file is
\* within its refresh interval does not run the producer and changes
\* nothing on disk.
C3_Open ==
    /\ (last.op = "open" /\ ~PreEnt.init /\ ~PreExists /\ PreParentIsDir) =>
           /\ last.calls = 1
           /\ is_file(dirs, files, PreEnt.path)
           /\ last.res = IF PreEnt.cb = "counter" THEN "Ok" ELSE "Callback"
    /\ (last.op = "open" /\ ~PreEnt.init /\ ~PreExists /\ ~PreParentIsDir) =>
           /\ last.res = "IO"
           /\ last.calls = 0
           /\ DiskUnchanged
    /\ (last.op = "open" /\ ~PreEnt.init /\ PreValid) =>
           /\ last.calls = 0
           /\ last.res = "Ok"
           /\ last.out = PreFile.content
           /\ DiskUnchanged

\* A second open(): the file holds what this entry's producer wrote first.
C3_Witness ==
    /\ last.op = "open"
    /\ ~PreEnt.init
    /\ PreValid
    /\ PreEnt.ctr = 1
    /\ PreFile.content = <<last.id, 0>>
    /\ last.calls = 0
    /\ last.out = <<last.id, 0>>

\* C4: refresh() on an existing file runs the producer exactly when the
\* file is not within its refresh interval; when it is, refresh() returns
\* Ok and changes nothing.
C4_Refresh ==
    (last.op = "refresh" /\ PreIsFile) =>
        /\ last.calls = IF Elapsed < PreEnt.refresh_interval THEN 0 ELSE 1
        /\ Elapsed < PreEnt.refresh_interval =>
               /\ last.res = "Ok"
               /\ DiskUnchanged
               /\ entries = last.pre.entries
        /\ Elapsed >= PreEnt.refresh_interval =>
               /\ PostFile.mtime = last.pre.now
               /\ PostFile.content =
                      IF PreEnt.cb = "counter" THEN <<last.id, PreEnt.ctr>>
                      ELSE <<>>

C4_Witness ==
    /\ last.op = "refresh"
    /\ PreIsFile
    /\ PreEnt.refresh_interval = 1
    /\ Elapsed = 1
    /\ last.calls = 1
    /\ last.res = "Ok"

\* C5: force_refresh() on an existing file truncates it and runs the
\* producer once, whatever the elapsed time and the refresh interval.
C5_ForceRefresh ==
    (last.op = "force_refresh" /\ PreIsFile) =>
        /\ last.calls = 1
        /\ last.res = IF PreEnt.cb = "counter" THEN "Ok" ELSE "Callback"
        /\ PostFile.mtime = last.pre.now
        /\ PostFile.content =
               IF PreEnt.cb = "counter" THEN <<last.id, PreEnt.ctr>> ELSE <<>>

\* A forced refresh right after creation, under the interval that never
\* expires.
C5_Witness ==
    /\ last.op = "force_refresh"
    /\ PreIsFile
    /\ PreEnt.refresh_interval = DURATION_MAX
    /\ Elapsed = 0
    /\ PreFile.content = <<last.id, 0>>
    /\ PostFile.content = <<last.id, 1>>
    /\ last.calls = 1

\* The call recorded in last created the file of the entry it was made on
\* or returned.
Created ==
    /\ last.op \in {"create", "open", "init", "get"}
    /\ last.res = "Ok"
    /\ last.id \in DOMAIN entries
    /\ ~exists(last.pre.dirs, last.pre.files, entries[last.id].path)

\* C6: is_valid() is true exactly when now - modified < refresh_interval,
\* is_invalid() is its negation, and both succeed on an existing file; right
\* after the file is created is_valid() is true for a positive interval and
\* false for interval 0.
C6_Validity ==
    /\ (last.op \in {"is_valid", "is_invalid"} /\ PreIsFile) => last.res = "Ok"
    /\ (last.op = "is_valid" /\ last.res = "Ok") =>
           last.out = <<Elapsed < PreEnt.refresh_interval>>
    /\ (last.op = "is_invalid" /\ last.res = "Ok") =>
           last.out = <<~(Elapsed < PreEnt.refresh_interval)>>
    /\ Created =>
           /\ is_valid(dirs, files, now, entries[last.id]) =
                  [res |-> "Ok", val |-> entries[last.id].refresh_interval > 0]
           /\ is_invalid(dirs, files, now, entries[last.id]) =
                  [res |-> "Ok", val |-> entries[last.id].refresh_interval = 0]

\* The boundary: the elapsed time equals the interval.
C6_Witness ==
    /\ last.op = "is_valid"
    /\ last.res = "Ok"
    /\ PreEnt.refresh_interval = 1
    /\ Elapsed = 1
    /\ last.out = <<FALSE>>

\* C7 as stated: with refresh interval 0 the k-th successful open() of an
\* entry with the counter producer yields k - 1.
C7_Original ==
    (last.op = "open" /\ last.res = "Ok" /\ PreEnt.refresh_interval = 0
                     /\ PreEnt.cb = "counter") =>
        last.out = <<last.id, entries[last.id].opens - 1>>

\* C7 amended: with refresh interval 0 every successful open() runs the
\* producer once and yields its counter; when only get and open() run the
\* producer, the k-th successful open() yields k - 1 on an entry from
\* get_lazy and k on an entry from get, whose creation ran the producer
\* once already.
C7_AlwaysRefresh ==
    (last.op = "open" /\ last.res = "Ok" /\ PreEnt.refresh_interval = 0
                     /\ PreEnt.cb = "counter") =>
        /\ last.calls = 1
        /\ last.out = <<last.id, PreEnt.ctr>>
        /\ last.out = <<last.id, entries[last.id].opens - 1
                                    + (IF PreEnt.init THEN 1 ELSE 0)>>

\* The second successful open() of an entry from get_lazy yields 1.
C7_Witness ==
    /\ last.op = "open"
    /\ last.res = "Ok"
    /\ PreEnt.refresh_interval = 0
    /\ ~PreEnt.init
    /\ entries[last.id].opens = 2
    /\ last.out = <<last.id, 1>>

\* C8: with refresh interval MAX, once the file exists open() and
\* refresh() never run the producer; of all the calls on the entry only
\* force_refresh() runs it, advancing the counter by one.
C8_NeverRefresh ==
    (OnEntry /\ PreEnt.refresh_interval = DURATION_MAX /\ PreIsFile) =>
        /\ last.op \in {"open", "refresh"} =>
               /\ last.calls = 0
               /\ last.res = "Ok"
               /\ DiskUnchanged
               /\ entries[last.id].ctr = PreEnt.ctr
        /\ last.calls > 0 => last.op = "force_refresh"
        /\ (last.op = "force_refresh" /\ PreEnt.cb = "counter") =>
               entries[last.id].ctr = PreEnt.ctr + 1

\* An open() after time has passed since the file was written.
C8_Witness ==
    /\ last.op = "open"
    /\ PreEnt.refresh_interval = DURATION_MAX
    /\ PreIsFile
    /\ Elapsed = MaxTime
    /\ PreEnt.ctr = 1
    /\ last.calls = 0
    /\ last.out = <<last.id, 0>>

\* C10: a successful get() returns an Initialized entry whose file exists
\* and whose producer ran exactly once in the call; init() on a Lazy entry
\* whose file is absent does what create() does, and on one whose file is
\* present wraps it without running the producer.
C10_GetInit ==
    /\ (last.op = "get" /\ last.res = "Ok") =>
           /\ entries[last.id].init
           /\ entries[last.id].path = last.out
           /\ is_file(dirs, files, last.out)
           /\ ~exists(last.pre.dirs, last.pre.files, last.out)
           /\ last.calls = 1
    /\ (last.op = "init" /\ ~PreExists) =>
           /\ last.res =
                  create(last.pre.dirs, last.pre.files, last.pre.now, last.id,
                         PreEnt).res
           /\ files =
                  create(last.pre.dirs, last.pre.files, last.pre.now, last.id,
                         PreEnt).files
           /\ last.calls = IF PreParentIsDir THEN 1 ELSE 0
           /\ is_file(dirs, files, PreEnt.path) = PreParentIsDir
           /\ last.res = "Ok" => entries[last.id].init
    /\ (last.op = "init" /\ PreExists) =>
           /\ last.res = "Ok"
           /\ last.calls = 0
           /\ DiskUnchanged
           /\ entries[last.id] = [PreEnt EXCEPT !.init = TRUE]

C10_Witness ==
    /\ last.op = "get"
    /\ last.res = "Ok"
    /\ last.arg = RelPath(<<"a", "x">>, FALSE)
    /\ Root \o <<"a">> \notin last.pre.dirs
    /\ files[Root \o <<"a", "x">>].content = <<last.id, 0>>

\* The operations that may bring a file into being: create(), and open(),
\* init() and get() through it.
Creators == {"create", "open", "init", "get"}

\* C11: a successful get_lazy invokes no producer and creates no file: the
\* entry's file is absent when it returns; and a file comes into being only
\* in an open(), a create(), an init() (or the get that ends in init).
C11_Lazy ==
    /\ (last.op = "get_lazy" /\ last.res = "Ok") =>
           /\ last.calls = 0
           /\ files = last.pre.files
           /\ ~exists(dirs, files, last.out)
    /\ (last.op \notin Creators \cup {"idle"}) =>
           /\ last.calls = 0 \/ last.op \in {"refresh", "force_refresh"}
           /\ DOMAIN files \subseteq DOMAIN last.pre.files

C11_Witness ==
    /\ last.op = "get_lazy"
    /\ last.res = "Ok"
    /\ last.arg = RelPath(<<"a", "x">>, FALSE)
    /\ Root \o <<"a">> \in dirs \ last.pre.dirs
    /\ files = last.pre.files
    /\ Root \o <<"a", "x">> \notin DOMAIN files

\* C12: the lock flag is a two-state machine that starts unlocked: lock()
\* succeeds, and sets it, exactly when the entry is unlocked, and fails with
\* FileAlreadyLocked otherwise; unlock() succeeds, and clears it, exactly
\* when the entry is locked, and fails with FileAlreadyUnlocked otherwise;
\* a failed call leaves the flag as it was, no other operation changes it,
\* and is_locked() and is_unlocked() are always complementary.
C12_LockFlag ==
    /\ (IsGet /\ last.res = "Ok" /\ last.id \in DOMAIN entries) =>
           (~is_locked(entries[last.id]) /\ is_unlocked(entries[last.id]))
    /\ last.op = "lock" =>
           /\ last.res = (IF PreEnt.locked THEN "FileAlreadyLocked" ELSE "Ok")
           /\ entries[last.id] = [PreEnt EXCEPT !.locked = TRUE]
           /\ DiskUnchanged
    /\ last.op = "unlock" =>
           /\ last.res = (IF PreEnt.locked THEN "Ok" ELSE "FileAlreadyUnlocked")
           /\ entries[last.id] = [PreEnt EXCEPT !.locked = FALSE]
           /\ DiskUnchanged
    /\ last.op = "is_locked" => last.out = <<PreEnt.locked>>
    /\ last.op = "is_unlocked" => last.out = <<~PreEnt.locked>>
    /\ \A id \in DOMAIN entries :
           is_locked(entries[id]) = ~is_unlocked(entries[id])
    /\ (OnEntry /\ last.op \notin {"lock", "unlock"}
                /\ last.id \in DOMAIN entries) =>
           entries[last.id].locked = PreEnt.locked

C12_Witness ==
    /\ last.op = "lock"
    /\ last.res = "FileAlreadyLocked"
    /\ PreEnt.locked
    /\ PreEnt.ctr = 2
    /\ entries[last.id].locked

\* C13: locking prevents refreshing: while the entry is locked, open() and
\* refresh() on its existing file do not invoke the producer and the file
\* keeps its old content, even after the refresh interval has elapsed;
\* once unlocked, an expired file is refreshed again.
C13_LockPreventsRefresh ==
    /\ (last.op \in {"open", "refresh"} /\ PreIsFile /\ PreEnt.locked) =>
           /\ last.calls = 0
           /\ PostFile.content = PreFile.content
    /\ (last.op \in {"open", "refresh"} /\ PreIsFile /\ ~PreEnt.locked
            /\ Elapsed >= PreEnt.refresh_interval) =>
           last.calls = 1

PreTarget ==
    canonicalize(last.pre.dirs, last.pre.files, PreEnt.path).path

\* What lay below directory a when the call was made.
Below(a) ==
    {p \in last.pre.dirs \cup DOMAIN last.pre.files :
        Len(p) > Len(a) /\ starts_with(p, a)}

\* The directories between the cache root and the file, both excluded.
Ancestors ==
    {SubSeq(PreTarget, 1, k) : k \in (Len(Root) + 1)..(Len(PreTarget) - 1)}

\* Directory a held nothing but the chain of directories down to the file.
Emptied(a) == \A p \in Below(a) : starts_with(PreTarget, p)

\* C15: remove() on an entry whose file exists succeeds, deletes the file
\* and exactly the ancestor directories below the root that the removal
\* left empty, from the file's directory upward; an ancestor that holds
\* anything else stays, with everything above it, every other directory and
\* every other file.
C15_Prune ==
    (last.op = "remove" /\ PreIsFile) =>
        /\ last.res = "Ok"
        /\ last.calls = 0
        /\ files = [q \in DOMAIN last.pre.files \ {PreTarget} |->
                        last.pre.files[q]]
        /\ dirs = last.pre.dirs \ {a \in Ancestors : Emptied(a)}

C15_Witness ==
    /\ last.op = "remove"
    /\ PreEnt.path = Root \o <<"a", "a", "a", "x">>
    /\ PreIsFile
    /\ Root \o <<"a", "y">> \in DOMAIN files
    /\ last.pre.dirs \ dirs = {Root \o <<"a", "a">>, Root \o <<"a", "a", "a">>}
    /\ Root \o <<"a">> \in dirs

\* C16: the cache root is a directory in every reachable state: no sequence
\* of get, get_lazy, open, refresh, force_refresh and remove deletes it, and
\* a remove() never takes it from the disk, not even the remove() of the
\* last file directly under it.
C16_RootKept ==
    /\ Root \in dirs
    /\ canonicalize(dirs, files, Root) = [ok |-> TRUE, path |-> Root]
    /\ last.op = "remove" => Root \in last.pre.dirs \cap dirs

C16_Witness ==
    /\ last.op = "remove"
    /\ last.res = "Ok"
    /\ PreEnt.path = Root \o <<"x">>
    /\ DOMAIN last.pre.files = {Root \o <<"x">>}
    /\ last.pre.dirs = {<<>>, Root}
    /\ DOMAIN files = {}
    /\ dirs = {<<>>, Root}

\* C17: for every path that is empty, whitespace-only, or ends in a path
\* separator, get and get_lazy fail with InvalidPath.
C17_InvalidPath ==
    (IsGet /\ (\/ last.arg.comps = <<>>
               \/ last.arg.comps = <<Blank>>
               \/ last.arg.slash))
        => last.res = "InvalidPath"

\* C18: when the producer fails during create(), called directly or through
\* open(), init() or get(), the operation fails with Callback (not IO)
\* after one producer invocation, and the file create() made is left on
\* disk, empty: nothing is rolled back.
C18_NoRollback ==
    /\ (last.op \in {"create", "open", "init"} /\ ~PreExists
            /\ PreParentIsDir /\ PreEnt.cb = "fail") =>
           /\ last.res = "Callback"
           /\ last.calls = 1
           /\ is_file(dirs, files, PreEnt.path)
           /\ PostFile = [content |-> <<>>, mtime |-> last.pre.now]
           /\ dirs = last.pre.dirs
    /\ (last.op = "get" /\ last.res = "Callback") =>
           /\ last.calls = 1
           /\ ~exists(last.pre.dirs, last.pre.files, Root \o last.arg.comps)
           /\ is_file(dirs, files, Root \o last.arg.comps)
           /\ files[canonicalize(dirs, files, Root \o last.arg.comps).path]
                  = [content |-> <<>>, mtime |-> last.pre.now]
    /\ (last.op \in Creators /\ last.res = "Callback") =>
           DOMAIN last.pre.files \subseteq DOMAIN files

C18_Witness ==
    /\ last.op = "open"
    /\ last.res = "Callback"
    /\ ~PreExists
    /\ PreEnt.path = Root \o <<"a", "x">>
    /\ Root \o <<"a", "x">> \in DOMAIN files \ DOMAIN last.pre.files

\* The thread's call has returned.
Done(t) == threads[t].pc = "done"

\* The thread's exclusive create succeeded: it is the one that made the file.
Won(t) == threads[t].made # <<>>

\* Two threads were given the same relative path.
SamePath(t, u) == t # u /\ threads[t].rel = threads[u].rel

\* C19 as stated: when two callers concurrently attempt to create the same
\* path for the first time, at most one create() wins (its producer runs),
\* and the loser receives FileAlreadyExists.
C19_Original ==
    \A t, u \in Threads :
        (SamePath(t, u) /\ Done(t) /\ Done(u) /\ Won(t)) =>
            /\ ~Won(u)
            /\ threads[u].calls = 0
            /\ threads[u].res = "FileAlreadyExists"

\* C19 amended: of two callers that concurrently attempt to create the same
\* path for the first time at most one wins the exclusive create, and only
\* the winner's producer runs, once.  The loser runs no producer and
\* receives IO when its create() lost (or when its create_dir of a shared
\* parent did), FileAlreadyExists only when it constructed its entry after
\* the file had appeared, and Ok from get() when init() found the file
\* already there.
C19_OneCreator ==
    /\ \A t, u \in Threads :
           (t # u /\ Won(t) /\ Won(u)) => threads[t].made # threads[u].made
    /\ \A t \in Threads :
           /\ threads[t].calls <= 1
           /\ threads[t].calls = 1 => Won(t)
    /\ \A t, u \in Threads :
           (SamePath(t, u) /\ Won(t) /\ Done(u)) =>
               /\ ~Won(u)
               /\ threads[u].calls = 0
               /\ threads[u].at \in {"mkdir", "new", "init", "create"}
               /\ threads[u].at \in {"mkdir", "create"} => threads[u].res = "IO"
               /\ threads[u].at = "new" => threads[u].res = "FileAlreadyExists"
               /\ threads[u].at = "init" => threads[u].res = "Ok"

C19_Witness ==
    \E t, u \in Threads :
        /\ SamePath(t, u)
        /\ threads[t].op = "create" /\ threads[u].op = "create"
        /\ threads[t].rel = RelPath(<<"x">>, FALSE)
        /\ Done(t) /\ Won(t) /\ threads[t].res = "Ok" /\ threads[t].calls = 1
        /\ Done(u) /\ threads[u].at = "create" /\ threads[u].res = "IO"

\* C20: concurrent get calls for pairwise distinct paths, their producers
\* succeeding, all succeed under every interleaving, also when the paths
\* share a parent directory that does not exist yet.
C20_DistinctAllSucceed ==
    (/\ \A t \in Threads :
            Done(t) /\ threads[t].op = "get" /\ threads[t].cb = "counter"
     /\ \A t, u \in Threads : t # u => threads[t].rel # threads[u].rel)
        => \A t \in Threads : threads[t].res = "Ok"

\* C21: a reader is not protected from a regeneration in flight: an open()
\* that reads the file while another caller is between its truncate and the
\* end of its producer succeeds and observes the truncated, empty file,
\* which no producer wrote; an open() that reads at any other time observes
\* content a producer completed.
C21_TornRead ==
    \A t \in Threads :
        (Done(t) /\ threads[t].op = "open" /\ threads[t].at = "read") =>
            /\ threads[t].res = "Ok"
            /\ threads[t].mid => threads[t].out = <<>>
            /\ ~threads[t].mid => threads[t].out # <<>>

C21_Witness ==
    \E t, u \in Threads :
        /\ Done(t) /\ threads[t].op = "open" /\ threads[t].res = "Ok"
        /\ threads[t].mid /\ threads[t].out = <<>>
        /\ threads[u].op = "force_refresh" /\ threads[u].pc = "produce"
        /\ threads[u].path = threads[t].path

\* Some prefix of the target, or the target itself once its ".." are
\* resolved, named a regular file when the call was made: no directory can
\* be made there.
FileInTheWay ==
    \E k \in 1..Len(last.arg) :
        lexical(<<>>, SubSeq(last.arg, 1, k)) \in DOMAIN last.pre.files

\* C22: constructing a root on a path that exists and is not a directory
\* fails with NotADirectory, and only then; on a path that does not exist
\* the directory is created with its missing ancestors (where a regular
\* file is in the way the error is IO and the target is not made); on a
\* directory nothing changes; and on success the root is the canonical
\* path of the target, an existing directory, under the default interval.
C22_New ==
    last.op = "with_dir" =>
        /\ last.res = "NotADirectory" <=>
               /\ exists(last.pre.dirs, last.pre.files, last.arg)
               /\ ~is_dir(last.pre.dirs, last.pre.files, last.arg)
        /\ last.res = "NotADirectory" => DiskUnchanged
        /\ is_dir(last.pre.dirs, last.pre.files, last.arg) =>
               last.res = "Ok" /\ DiskUnchanged
        /\ (~exists(last.pre.dirs, last.pre.files, last.arg) /\ ~FileInTheWay) =>
               /\ last.res = "Ok"
               /\ files = last.pre.files
               /\ dirs = last.pre.dirs \cup
                     {lexical(<<>>, SubSeq(last.arg, 1, k)) :
                          k \in 1..Len(last.arg)}
        /\ (~exists(last.pre.dirs, last.pre.files, last.arg) /\ FileInTheWay) =>
               /\ last.res = "IO"
               /\ files = last.pre.files
               /\ last.pre.dirs \subseteq dirs
               /\ ~is_dir(dirs, files, last.arg)
        /\ last.res = "Ok" =>
               /\ last.out \in dirs
               /\ last.out = lexical(<<>>, last.arg)
               /\ is_dir(dirs, files, last.arg)
               /\ root_interval = DEFAULT_REFRESH_INTERVAL

C22_Witness ==
    /\ last.op = "with_dir"
    /\ last.arg = <<"c", "d", "c">>
    /\ last.res = "Ok"
    /\ last.pre.dirs = {<<>>}
    /\ dirs = {<<>>, <<"c">>, <<"c", "d">>, <<"c", "d", "c">>}

Queries == {"is_valid", "is_invalid", "valid_until"}

\* C23: is_valid(), is_invalid() and valid_until() fail with an error
\* whenever the file's metadata cannot be read: on an entry whose file was
\* never made or was removed they return IO, change nothing and carry no
\* answer; an answer is given only for a file that is there.
C23_NoDefault ==
    (last.op \in Queries) =>
        /\ ~PreExists => (last.res = "IO" /\ last.out = <<>>)
        /\ last.res = "Ok" => (PreIsFile /\ Len(last.out) = 1)
        /\ DiskUnchanged
        /\ entries = last.pre.entries

C23_Witness ==
    /\ last.op = "is_invalid"
    /\ last.res = "IO"
    /\ PreEnt.init
    /\ PreEnt.ctr = 1
    /\ ~PreExists

\* C24: valid_until() returns the instant modified + refresh_interval or an
\* error value and never panics, for every refresh interval an entry can
\* have, Duration::MAX included.
C24_NoPanic ==
    last.op = "valid_until" =>
        /\ last.res # "Panic"
        /\ last.res = "Ok" =>
               /\ Len(last.out) = 1
               /\ last.out[1] - PreFile.mtime = PreEnt.refresh_interval

\* C25: an entry returned by get or get_lazy has the interval the root had
\* when it was made; with_refresh_interval(d) leaves the entry with interval
\* d and with_default_refresh_interval() with the interval of its root,
\* whatever the library constant is; both keep the entry's path, producer
\* and lock flag, and neither touches the disk.
C25_EntryInterval ==
    /\ (last.op \in {"get", "get_lazy"} /\ last.res = "Ok") =>
           entries[last.id].refresh_interval = last.pre.root_interval
    /\ last.op = "with_refresh_interval" =>
           /\ entries[last.id].refresh_interval = last.arg
           /\ entries[last.id] = [PreEnt EXCEPT !.refresh_interval = last.arg]
           /\ DiskUnchanged
    /\ last.op = "with_default_refresh_interval" =>
           /\ entries[last.id].refresh_interval = last.pre.root_interval
           /\ entries[last.id] =
                  [PreEnt EXCEPT !.refresh_interval = last.pre.root_interval]
           /\ DiskUnchanged

C25_Witness ==
    /\ last.op = "with_default_refresh_interval"
    /\ PreEnt.locked
    /\ PreEnt.refresh_interval = 0
    /\ last.pre.root_interval = 1
    /\ entries[last.id].refresh_interval = 1

\* C26: a root that was just constructed has the default interval, 5
\* seconds; with_refresh_interval(d) on a root leaves it with interval d and
\* with_default_refresh_interval() with the 5 second default again; both
\* return a root on the same directory and change neither the disk nor an
\* entry, and the entries made afterward start with the new interval.
C26_RootInterval ==
    /\ DEFAULT_REFRESH_INTERVAL = 5
    /\ (last.op = "with_dir" /\ last.res = "Ok") =>
           root_interval = DEFAULT_REFRESH_INTERVAL
    /\ last.op = "cache_with_refresh_interval" =>
           /\ root_interval = last.arg
           /\ last.out = Root
           /\ DiskUnchanged
           /\ entries = last.pre.entries
    /\ last.op = "cache_with_default_refresh_interval" =>
           /\ root_interval = DEFAULT_REFRESH_INTERVAL
           /\ last.out = Root
           /\ DiskUnchanged
           /\ entries = last.pre.entries
    /\ last.op \in {"get", "get_lazy"} =>
           \A id \in DOMAIN last.pre.entries :
               /\ id \in DOMAIN entries
               /\ entries[id].refresh_interval =
                      last.pre.entries[id].refresh_interval
    /\ (last.op \in {"get", "get_lazy"} /\ last.res = "Ok") =>
           entries[last.id].refresh_interval = root_interval

C26_Witness ==
    /\ last.op = "cache_with_default_refresh_interval"
    /\ last.pre.root_interval = 1
    /\ root_interval = 5

\* C27: the InvalidPath checks come first: a get or get_lazy that fails
\* with InvalidPath has changed nothing on disk, and a path that is
\* malformed (trailing separator, no final component, or a final component
\* that is ".." or blank) and resolves outside the root fails with
\* InvalidPath, not PathTraversal.
C27_ChecksFirst ==
    IsGet =>
        /\ last.res = "InvalidPath" => DiskUnchanged
        /\ (~WellFormed(last.arg) /\ Escapes(last.arg)) =>
               last.res = "InvalidPath"

\* The parent prefixes of rel that come before the first one that resolves
\* outside the root.
BeforeEscape(rel) ==
    {k \in 1..(Len(rel.comps) - 1) : \A j \in 1..k : Inside(Prefix(rel, j))}

\* C28: a get or get_lazy that fails with PathTraversal returns no entry
\* and leaves on disk every directory it created on the way: afterwards
\* the directories are those there before together with every parent
\* prefix that precedes the escaping one, and no file has changed.
C28_NoRollback ==
    (IsGet /\ last.res = "PathTraversal") =>
        /\ last.out = <<>>
        /\ last.id = 0
        /\ entries = last.pre.entries
        /\ files = last.pre.files
        /\ dirs = last.pre.dirs \cup
                  {Prefix(last.arg, k) : k \in BeforeEscape(last.arg)}

C28_Witness ==
    /\ last.op = "get"
    /\ last.res = "PathTraversal"
    /\ last.arg = RelPath(<<"a", ParentDir, ParentDir, "x">>, FALSE)
    /\ Root \o <<"a">> \notin last.pre.dirs
    /\ Root \o <<"a">> \in dirs

\* Some parent prefix of rel resolves outside the cache root.
PrefixEscapes(rel) ==
    \E k \in 1..(Len(rel.comps) - 1) : ~Inside(Prefix(rel, k))

\* No parent prefix of rel names a regular file of f.
NoFileParent(f, rel) ==
    \A k \in 1..(Len(rel.comps) - 1) : Prefix(rel, k) \notin DOMAIN f

\* Nothing is at the location rel resolves to, and the walk puts nothing
\* there: it is none of the parent prefixes.
Vacant(d, f, rel) ==
    /\ lexical(Root, rel.comps) \notin d
    /\ lexical(Root, rel.comps) \notin DOMAIN f
    /\ \A k \in 1..(Len(rel.comps) - 1) :
           Prefix(rel, k) # lexical(Root, rel.comps)

\* C29 as stated: a relative path one of whose parent prefixes resolves
\* outside the root makes get and get_lazy fail with PathTraversal, wherever
\* the complete path resolves to; a path whose every parent prefix stays
\* inside the root is not refused as a traversal.
C29_Original ==
    IsGet =>
        /\ PrefixEscapes(last.arg) => last.res = "PathTraversal"
        /\ ParentsInside(last.arg) => last.res # "PathTraversal"

\* C29 amended: for a relative path with no trailing separator and a plain,
\* non-blank final component, the containment check is made on every parent
\* prefix in turn: if one resolves outside the root and the walk does not
\* pass through a regular file before it, get and get_lazy fail with
\* PathTraversal, wherever the complete path resolves to; if every parent
\* prefix stays inside the root they do not, and when moreover no parent
\* prefix names a regular file and nothing is at the location the path
\* resolves to (which the walk itself may fill, as for "a/../a"), get_lazy
\* succeeds and get fails only if the producer does.
C29_EveryPrefix ==
    (IsGet /\ WellFormed(last.arg)) =>
        /\ (PrefixEscapes(last.arg) /\ ~ThroughFile(last.pre.files, last.arg))
               => last.res = "PathTraversal"
        /\ ParentsInside(last.arg) => last.res # "PathTraversal"
        /\ (/\ ParentsInside(last.arg)
            /\ NoFileParent(last.pre.files, last.arg)
            /\ Vacant(last.pre.dirs, last.pre.files, last.arg))
               => last.res \in (IF last.op = "get_lazy" THEN {"Ok"}
                                ELSE {"Ok", "Callback"})

C29_Witness ==
    /\ last.op = "get_lazy"
    /\ last.arg = RelPath(<<ParentDir, Root[1], "x">>, FALSE)
    /\ Inside(lexical(Root, last.arg.comps))
    /\ last.res = "PathTraversal"

\* What a call added to the disk: directories and regular files.
Added == (dirs \ last.pre.dirs) \cup (DOMAIN files \ DOMAIN last.pre.files)

\* C30: whatever its path and its result, a get or get_lazy adds nothing
\* to the disk outside the cache root: every directory and file it creates
\* lies below the root, in a directory that lies inside the root, and
\* nothing outside the root is removed.
C30_NothingOutside ==
    IsGet =>
        /\ \A p \in Added :
               /\ Inside(p)
               /\ p # Root
               /\ Inside(Front(p))
               /\ Front(p) \in dirs
        /\ \A p \in last.pre.dirs \cup DOMAIN last.pre.files :
               ~Inside(p) => p \in dirs \cup DOMAIN files

C30_Witness ==
    /\ last.op = "get_lazy"
    /\ last.res = "PathTraversal"
    /\ last.arg = RelPath(<<"a", ParentDir, ParentDir, "x">>, FALSE)
    /\ Added = {Root \o <<"a">>}

\* The entry's file was modified later than the time of the call.
PreSkewed == PreExists /\ PreIsFile /\ PreFile.mtime > last.pre.now

\* C31: when the file's modification time is later than the current time,
\* is_valid(), is_invalid(), refresh() and open() fail with a SystemTime
\* error whatever the refresh interval: no boolean is returned, the
\* producer is not invoked, and the file, the disk and the entry are
\* unchanged.
C31_ClockSkew ==
    (last.op \in {"is_valid", "is_invalid", "refresh", "open"} /\ PreSkewed) =>
        /\ last.res = "SystemTime"
        /\ last.out = <<>>
        /\ last.calls = 0
        /\ DiskUnchanged
        /\ entries = last.pre.entries

C31_Witness ==
    /\ last.op = "open"
    /\ PreSkewed
    /\ PreEnt.refresh_interval = 0
    /\ last.res = "SystemTime"

\* C32: a create() or force_refresh() that fails with Callback leaves the
\* file on disk, modified at the time of the call; from then on, at every
\* time within the entry's refresh interval, open() returns Ok with the
\* content that was left, invokes no producer and changes nothing.  So an
\* open() that finds the entry's file empty and within its interval
\* returns the empty content as a success.
C32_Masked ==
    /\ (last.op \in {"create", "force_refresh"} /\ last.res = "Callback") =>
           /\ is_file(dirs, files, PreEnt.path)
           /\ PostFile.mtime = last.pre.now
           /\ \A t \in now..MaxTime :
                  (t - PostFile.mtime < entries[last.id].refresh_interval) =>
                      open(dirs, files, t, last.id, entries[last.id]) =
                          Outcome(dirs, files, entries[last.id], "Ok", 0,
                                  PostFile.content)
    /\ (last.op = "open" /\ PreIsFile /\ PreValid
            /\ PreFile.content = <<>>) =>
           /\ last.res = "Ok"
           /\ last.calls = 0
           /\ last.out = <<>>
           /\ DiskUnchanged

\* The producer of the entry fails, its file is there, empty, and open()
\* succeeds.
C32_Witness ==
    /\ last.op = "open"
    /\ PreEnt.cb = "fail"
    /\ PreIsFile
    /\ PreFile.content = <<>>
    /\ PreEnt.refresh_interval = 1
    /\ last.res = "Ok"
    /\ last.calls = 0
    /\ last.out = <<>>

\* The location the relative path of the call resolves to.
Target == lexical(Root, last.arg.comps)

\* C33: a get that fails with Callback returns no entry and leaves the
\* file it created on disk, so that get and get_lazy of the same path,
\* whatever the producer, now fail with FileAlreadyExists; and a get or
\* get_lazy whose path resolves, through parents inside the root, to a
\* file left empty by such a failure fails with FileAlreadyExists.
C33_Stuck ==
    /\ (last.op = "get" /\ last.res = "Callback") =>
           /\ last.out = <<>>
           /\ last.id = 0
           /\ entries = last.pre.entries
           /\ Target \in DOMAIN files
           /\ Target \notin DOMAIN last.pre.files
           /\ \A cb \in Callbacks :
                  /\ get_lazy(dirs, files, root_interval, last.arg, cb).res
                         = "FileAlreadyExists"
                  /\ get(dirs, files, now, root_interval, 1, last.arg, cb).res
                         = "FileAlreadyExists"
    /\ (IsGet /\ WellFormed(last.arg) /\ ParentsInside(last.arg)
            /\ NoFileParent(last.pre.files, last.arg)
            /\ Target \in DOMAIN last.pre.files) =>
           /\ last.res = "FileAlreadyExists"
           /\ files = last.pre.files

C33_Witness ==
    /\ last.op = "get"
    /\ last.res = "FileAlreadyExists"
    /\ last.arg = RelPath(<<"a", "x">>, FALSE)
    /\ Target \in DOMAIN last.pre.files
    /\ last.pre.files[Target].content = <<>>

\* C34: refresh() and force_refresh() on an entry whose file does not
\* exist fail with IO, invoke no producer and change neither the disk nor
\* the entry; a call on an entry that finds no file and leaves one is a
\* create(), an open() or an init().
C34_NeverCreate ==
    /\ (last.op \in {"refresh", "force_refresh"} /\ ~PreExists) =>
           /\ last.res = "IO"
           /\ last.calls = 0
           /\ DiskUnchanged
           /\ entries = last.pre.entries
    /\ (OnEntry /\ ~PreExists /\ DOMAIN files # DOMAIN last.pre.files) =>
           last.op \in {"create", "open", "init"}

\* After remove(), on an entry that get initialized.
C34_Witness ==
    /\ last.op = "force_refresh"
    /\ PreEnt.init
    /\ PreEnt.ctr = 1
    /\ ~PreExists
    /\ last.res = "IO"

\* C35: remove() on an entry whose file is not there succeeds and changes
\* nothing, so a remove() repeated after a successful one is a no-op; the
\* entry stays as it was, and an open() on it afterwards, Lazy or
\* Initialized, makes the file again and invokes the producer exactly once
\* when the parent directory is still there.
C35_Idempotent ==
    /\ (last.op = "remove" /\ ~PreExists) =>
           /\ last.res = "Ok"
           /\ last.calls = 0
           /\ DiskUnchanged
    /\ last.op = "remove" => entries = last.pre.entries
    /\ (last.op = "remove" /\ last.res = "Ok") =>
           remove(dirs, files, entries[last.id]) =
               Outcome(dirs, files, entries[last.id], "Ok", 0, <<>>)
    /\ (last.op = "open" /\ ~PreExists /\ PreParentIsDir) =>
           /\ last.calls = 1
           /\ is_file(dirs, files, PreEnt.path)
           /\ PostFile.mtime = last.pre.now
           /\ last.res = IF PreEnt.cb = "counter" THEN "Ok" ELSE "Callback"
           /\ PreEnt.cb = "counter" =>
                  /\ last.out = <<last.id, PreEnt.ctr>>
                  /\ PostFile.content = <<last.id, PreEnt.ctr>>

\* A second remove() in a row, on an entry that get initialized.
C35_Witness ==
    /\ last.op = "remove"
    /\ last.res = "Ok"
    /\ PreEnt.init
    /\ PreEnt.ctr = 1
    /\ ~PreExists
    /\ Root \o <<"x">> = PreEnt.path

\* C36: remove() takes a directory from the disk only in a call that
\* deleted the entry's file; on an entry whose file is not there it leaves
\* every directory in place, so the directories a get_lazy made for an
\* entry that was never opened outlive its remove(), empty.
C36_PruneOnlyAfterDelete ==
    /\ (last.op = "remove" /\ dirs # last.pre.dirs) =>
           /\ PreIsFile
           /\ DOMAIN files = DOMAIN last.pre.files \ {PreTarget}
    /\ (last.op = "remove" /\ ~PreExists) =>
           /\ last.res = "Ok"
           /\ dirs = last.pre.dirs
           /\ is_dir(dirs, files, Front(PreEnt.path))
                  = is_dir(last.pre.dirs, last.pre.files, Front(PreEnt.path))
    /\ (last.op = "get_lazy" /\ last.res = "Ok") =>
           /\ is_dir(dirs, files, Front(last.out))
           /\ remove(dirs, files, entries[last.id]).dirs = dirs

\* The directory get_lazy made for the entry is still there, empty.
C36_Witness ==
    /\ last.op = "remove"
    /\ last.res = "Ok"
    /\ ~PreEnt.init
    /\ PreEnt.cb = "counter"
    /\ PreEnt.ctr = 0
    /\ ~PreExists
    /\ DOMAIN last.pre.files = {}
    /\ PreEnt.path = Root \o <<"a", "x">>
    /\ Root \o <<"a">> \in dirs
    /\ read_dir(dirs, files, Root \o <<"a">>) = {}

\* The operations of an entry that are not lock() or unlock().
FlagKeepers ==
    {"open", "create", "refresh", "force_refresh", "remove", "init",
     "with_refresh_interval", "with_default_refresh_interval"}

\* C37: the lock flag of an entry changes only in a lock() or unlock() that
\* succeeds: a failed one leaves the entry as it was, and open, create,
\* refresh, force_refresh, remove, init, with_refresh_interval and
\* with_default_refresh_interval hand the flag on unchanged; lock() and
\* unlock() invoke no producer, leave the disk (the file, its content and
\* its modification time) as it was, change no other field of the entry,
\* and so leave the answer of is_valid() unchanged.
C37_FlagFrame ==
    /\ (OnEntry /\ last.id \in DOMAIN entries
            /\ entries[last.id].locked # PreEnt.locked) =>
           (last.op \in {"lock", "unlock"} /\ last.res = "Ok")
    /\ (last.op \in {"lock", "unlock"} /\ last.res # "Ok") =>
           entries = last.pre.entries
    /\ (last.op \in FlagKeepers /\ last.id \in DOMAIN entries) =>
           entries[last.id].locked = PreEnt.locked
    /\ last.op \in {"lock", "unlock"} =>
           /\ last.calls = 0
           /\ DiskUnchanged
           /\ entries[last.id] =
                  [PreEnt EXCEPT !.locked = entries[last.id].locked]
           /\ is_valid(dirs, files, now, entries[last.id]) =
                  is_valid(last.pre.dirs, last.pre.files, last.pre.now, PreEnt)

\* init() on a locked Lazy entry: the Initialized entry is locked.
C37_Witness ==
    /\ last.op = "init"
    /\ last.res = "Ok"
    /\ PreEnt.locked
    /\ ~PreExists
    /\ entries[last.id].init
    /\ entries[last.id].locked

\* C38: a file's content and modification time change only in a call that
\* started a producer run, through create() (a file that was not there) or
\* force_refresh() (one that was): open() and refresh() on a file within
\* its interval, and is_valid(), is_invalid() and valid_until() always,
\* leave every file as it was, so that an open() inside the interval does
\* not move the instant at which the file expires; and no call touches a
\* file other than the entry's.
C38_FileFrame ==
    /\ (OnEntry /\ files # last.pre.files) =>
           /\ last.calls = 1
           /\ last.op \in (IF PreExists THEN {"open", "refresh", "force_refresh"}
                            ELSE {"open", "create", "init"})
    /\ (last.op \in {"open", "refresh"} /\ PreValid) =>
           /\ files = last.pre.files
           /\ PostFile.mtime = PreFile.mtime
           /\ entries[last.id].refresh_interval = PreEnt.refresh_interval
           /\ last.calls = 0
    /\ last.op \in {"is_valid", "is_invalid", "valid_until"} => DiskUnchanged
    /\ OnEntry =>
           \A q \in DOMAIN last.pre.files :
               (~PreExists \/ q # PreTarget) =>
                   (q \in DOMAIN files /\ files[q] = last.pre.files[q])

\* An open() one second into the interval: the file keeps the modification
\* time of its creation.
C38_Witness ==
    /\ last.op = "open"
    /\ PreValid
    /\ Elapsed = 1
    /\ PreEnt.refresh_interval = DEFAULT_REFRESH_INTERVAL
    /\ last.res = "Ok"
    /\ PostFile.mtime = 0
    /\ now = 1

\* The entries held, when the call was made, for the path the call names.
PreAliases ==
    {i \in DOMAIN last.pre.entries :
        last.pre.entries[i].path = Root \o last.arg.comps}

\* C39: get_lazy of a well-formed path fails with FileAlreadyExists exactly
\* when something is on disk at the path, whatever entries are held: it
\* succeeds for a path that a held entry already names as long as the file
\* is not there, so entries can share a path; and an open() of one of them
\* on a file within its interval that another entry's producer wrote
\* returns that content and does not invoke its own producer.
C39_Aliases ==
    /\ last.op = "get_lazy" =>
           /\ last.res \in {"Ok", "FileAlreadyExists"}
           /\ last.res = "FileAlreadyExists" <=>
                  exists(last.pre.dirs, last.pre.files, Root \o last.arg.comps)
           /\ last.res = "Ok" =>
                  /\ DOMAIN entries = DOMAIN last.pre.entries \cup {last.id}
                  /\ last.id \notin DOMAIN last.pre.entries
                  /\ \A i \in DOMAIN last.pre.entries :
                         entries[i] = last.pre.entries[i]
    /\ (last.op = "open" /\ PreValid /\ PreFile.content # <<>>
            /\ PreFile.content[1] # last.id) =>
           /\ last.res = "Ok"
           /\ last.calls = 0
           /\ last.out = PreFile.content
           /\ entries = last.pre.entries
           /\ DiskUnchanged

\* The second entry for a/x opens the file the first one's producer wrote.
C39_Witness ==
    /\ last.op = "open"
    /\ last.id = 2
    /\ DOMAIN entries = {1, 2}
    /\ entries[1].path = Root \o <<"a", "x">>
    /\ entries[2].path = Root \o <<"a", "x">>
    /\ PreEnt.cb = "counter"
    /\ PreEnt.ctr = 0
    /\ last.res = "Ok"
    /\ last.calls = 0
    /\ last.out = <<1, 0>>

\* Two threads are in open() on the same path.
BothOpen(t, u) ==
    /\ t # u
    /\ threads[t].op = "open"
    /\ threads[u].op = "open"
    /\ threads[t].path = threads[u].path

\* The thread's open() found no file and its exclusive create failed.
Lost(t) == Done(t) /\ threads[t].at = "create"

\* open() looks the file up and creates it in two steps.  Of two
\* callers in open() on the same path at most one makes the file, and only
\* that one's producer is invoked through create(), once; a caller that
\* found the file absent and then lost the exclusive create fails with IO,
\* without a producer call and without reading the file the winner made.
OpenRaceState ==
    /\ \A t, u \in Threads :
           BothOpen(t, u) => ~(Won(t) /\ Won(u))
    /\ \A t \in Threads :
           (threads[t].op = "open" /\ threads[t].pc \in {"reopen", "done"}
                /\ Won(t)) => threads[t].calls = 1
    /\ \A t \in Threads :
           (threads[t].op = "open" /\ Lost(t)) =>
               /\ ~Won(t)
               /\ threads[t].res = "IO"
               /\ threads[t].calls = 0
               /\ threads[t].out = <<>>
               /\ \E u \in Threads : BothOpen(t, u) /\ Won(u)

\* A thread of open() leaves the exclusive create either as the creator of
\* a file that was not there, or finished with IO beside a file it never
\* reads.
OpenRaceStep ==
    \A t \in Threads :
        (threads[t].op = "open" /\ threads[t].pc = "create"
             /\ threads'[t] # threads[t]) =>
            \/ /\ ~is_file(dirs, files, threads[t].path)
               /\ threads'[t].pc = "callback"
               /\ threads'[t].made = threads[t].path
            \/ /\ is_file(dirs, files, threads[t].path)
               /\ threads'[t].pc = "done"
               /\ threads'[t].res = "IO"
               /\ threads'[t].out = <<>>

\* C40: of two callers in open() on one absent path at most one invokes
\* the producer through create(), and the one that found the file absent
\* and lost the exclusive create fails with an error instead of reading
\* the file the winner created.
C40_OpenRace == []OpenRaceState /\ [][OpenRaceStep]_vars

C40_Witness ==
    \E t, u \in Threads :
        /\ BothOpen(t, u)
        /\ threads[t].id # threads[u].id
        /\ Done(t) /\ Won(t) /\ threads[t].res = "Ok" /\ threads[t].calls = 1
        /\ Lost(u) /\ threads[u].res = "IO"
        /\ is_file(dirs, files, threads[u].path)

====
